----------------------------- MODULE CabrilloFields -----------------------------
(***************************************************************************)
(* The fields in the header of a Cabrillo file: how a line of the          *)
(* configuration or of a template sets one, and what is written or asked   *)
(* for when the file is exported (cabrillo_utils.c).                       *)
(***************************************************************************)
EXTENDS Naturals, Sequences

\* One field of each kind: filled by the program, asked for, skipped if
\* empty, disabled at first.
Fields == {"CALLSIGN", "CLAIMED-SCORE", "GRID-LOCATOR", "NAME", "CLUB", "EMAIL"}

NoValue == "no value"
Dash    == "-"
Hint    == "(hint)"      \* text in parentheses

Prompted  == Fields \ {"CALLSIGN", "CLAIMED-SCORE"}
SkipEmpty == {"CLUB"}

cabrillo_fields ==
    [f \in Fields |-> [value |-> NoValue, hint |-> FALSE,
                       disabled |-> f \in {"GRID-LOCATOR", "EMAIL"}]]

AddField(fields, f, value) ==
    LET enabled == [fields[f] EXCEPT !.value = NoValue, !.disabled = FALSE] IN
    [fields EXCEPT ![f] =
        IF value = NoValue THEN enabled
        ELSE [value    |-> IF value = Dash THEN NoValue ELSE value,
              hint     |-> value = Hint,
              disabled |-> value = Dash]]

\* add_cabrillo_field(): one field is none of the header, but names the format
\* of the lines, as CABRILLO does; unknown ones are refused.
QsoFormat == "QSO-FORMAT"

AddCabrilloField(r, f, value) ==
    IF f = QsoFormat THEN [r EXCEPT !.format = value]
    ELSE IF f \in Fields THEN [r EXCEPT !.fields = AddField(@, f, value)]
    ELSE [r EXCEPT !.ok = FALSE]

\* Lines about what the program writes itself are skipped in a template.
Skipped(line) == line.field = "CALLSIGN"

TemplateLine(r, line) ==
    IF ~r.ok \/ Skipped(line) THEN r ELSE AddCabrilloField(r, line.field, line.value)

\* A template is read up to the first line with an unknown tag.
ReadTemplate(r, lines) ==
    LET read[n \in 0 .. Len(lines)] ==
            IF n = 0 THEN r ELSE TemplateLine(read[n - 1], lines[n])
    IN  read[Len(lines)]

Filled_Mutation(fields, call, score, qra) ==   \* Mutant: the call goes into another field
    [fields EXCEPT !["NAME"].value = call]

\* What write_cabrillo_header() puts into the fields it knows the value of.
Filled(fields, call, score, qra) ==
    [f \in Fields |->
        CASE f = "CALLSIGN" -> [fields[f] EXCEPT !.value = call, !.disabled = FALSE]
          [] f = "CLAIMED-SCORE" /\ ~fields[f].disabled -> [fields[f] EXCEPT !.value = score]
          [] f = "GRID-LOCATOR" /\ ~fields[f].disabled
                 /\ fields[f].value = NoValue /\ qra # NoValue ->
                 [fields[f] EXCEPT !.value = qra]
          [] OTHER -> fields[f]]

\* The value of a field in the file; the operator may be asked and answers.
FieldValue(fields, f, answer) ==
    LET given == fields[f].value # NoValue /\ ~fields[f].hint
        asked == ~given /\ f \in Prompted
    IN  IF fields[f].disabled \/ (~given /\ ~asked) THEN NoValue
        ELSE IF given THEN fields[f].value
        ELSE IF answer = NoValue /\ f \notin SkipEmpty THEN "" ELSE answer

Header(fields, answer) == [f \in Fields |-> FieldValue(fields, f, answer)]
=============================================================================
