-------------------------------- MODULE DeckRows --------------------------------
(***************************************************************************)
(* The statements a section renderer of src/src/cpmdc_params.c is made of. *)
(* Each prints a keyword, and the values below it, when some fields of the *)
(* section are set.  A row is one such statement:                          *)
(*   keyword  what it prints, with _ for a blank, or "value" for a value   *)
(*            under an earlier keyword;                                    *)
(*   when     the alternatives: it prints when all fields of one are set;  *)
(*   unless   fields that keep it from printing;                           *)
(*   carries  the fields whose values it prints.                           *)
(* Values and layout are left out: a field is set (non-empty text, nonzero *)
(* number, true flag, non-empty list) or it is not.                        *)
(***************************************************************************)
EXTENDS Naturals, SequencesExt

Row(keyword, when, unless, carries) ==
    [keyword |-> keyword, when |-> when, unless |-> unless, carries |-> carries]

\* Prints when one of fs is set, and with it whichever of them are.
AnyOf(keyword, fs) == Row(keyword, {{f} : f \in fs}, {}, fs)

\* Prints when all of fs are set.
AllOf(keyword, fs) == Row(keyword, {fs}, {}, fs)

\* A keyword with one field behind it.
F(keyword, f) == AnyOf(keyword, {f})

\* A value that needs the others of fs.
Also(fs) == AllOf("value", fs)

\* The option f of a keyword that one of leads prints.
Rides(f, leads) == Row("value", {{f, l} : l \in leads}, {}, {f})

\* Prints whatever is set.
Always(keyword, fs) == Row(keyword, {{}}, {}, fs)

\* A row behind a condition of its own, or an else branch.
Unless(row, fs) == [row EXCEPT !.unless = fs]

Prints(row, set) == /\ \E w \in row.when : w \subseteq set
                    /\ row.unless \cap set = {}

\* The body of the section: its rows by their place among the statements.
Printed(rows, set) == RestrictValues(rows, LAMBDA row : Prints(row, set))

FieldsOf(rows) == UNION {rows[i].carries : i \in DOMAIN rows}

\* The refusals of a renderer: the fields of one set together ...
Together(fs) == [both |-> fs, without |-> {}]

\* ... a list of the wrong length, or a malformed member ...
Bad(f) == Together({f})

\* ... or f without any of fs.
Without(f, fs) == [both |-> {f}, without |-> fs]

Refused(refusals, set) ==
    \E r \in refusals : r.both \subseteq set /\ r.without \cap set = {}

\* Losses a section allows: f is not printed unless all of fs are set ...
Needs(f, fs) == [field |-> f, needs |-> fs, oneOf |-> {}, yields |-> {}]

\* ... or unless one of fs is, or it gives way when one of fs is set ...
NeedsOne(f, fs) == [field |-> f, needs |-> {}, oneOf |-> fs, yields |-> {}]
Yields(f, fs) == [field |-> f, needs |-> {}, oneOf |-> {}, yields |-> fs]

\* ... or it is never printed.
Dropped(f) == Yields(f, {f})

Excused(losses, set) ==
    {l.field : l \in {e \in losses :
        \/ ~(e.needs \subseteq set)
        \/ e.oneOf # {} /\ e.oneOf \cap set = {}
        \/ e.yields \cap set # {}}}
=============================================================================
