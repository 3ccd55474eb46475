------------------------------ MODULE Records -------------------------------
(***************************************************************************)
(* Records with optional fields.  A field that is null in a JSON object, or *)
(* None in a value of the program, is absent from the record.              *)
(***************************************************************************)
EXTENDS Naturals

\* r with only the fields fs, those it has.
Keep(r, fs) == [f \in fs \cap DOMAIN r |-> r[f]]

\* r with default where it has no field f.
OrElse(r, f, default) == IF f \in DOMAIN r THEN r[f] ELSE default

\* r and s in one, with s's value where both have one.
With(r, s) ==
    [f \in DOMAIN r \cup DOMAIN s |-> IF f \in DOMAIN s THEN s[f] ELSE r[f]]

\* The records of a sequence in one, with the last one's value of a field.
Joined(rs) ==
    [f \in UNION {DOMAIN rs[i] : i \in DOMAIN rs} |->
        LET last == CHOOSE i \in DOMAIN rs :
                       /\ f \in DOMAIN rs[i]
                       /\ \A j \in DOMAIN rs : f \in DOMAIN rs[j] => j <= i
        IN  rs[last][f]]

\* The record of the field f alone, or of none.
Field(f, v) == [x \in {f} |-> v]
None == [x \in {} |-> x]

\* r's field f under the name g and converted, where r has it.
Mapped(r, f, g, Convert(_)) ==
    IF f \in DOMAIN r THEN Field(g, Convert(r[f])) ELSE None

\* r has one field of fs and no other.
ExactlyOne(r, fs) == \E f \in fs : fs \cap DOMAIN r = {f}
=============================================================================
