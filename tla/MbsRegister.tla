----------------------------- MODULE MbsRegister -----------------------------
(***************************************************************************)
(* What an MBS Session handle promises the rest of the MBSF: it is a       *)
(* register the MBSF may write at any moment and that is copied to the     *)
(* MB-SMF one value at a time.  Writes made while a value is on its way    *)
(* are merged into the last of them; the deletion is the last write.       *)
(***************************************************************************)
CONSTANTS Status,     \* the values of the register
          DELETE,     \* the deletion
          NOTHING     \* nothing: held, or on its way

VARIABLES want,       \* what the MBSF last asked for
          pending,    \* the request the MB-SMF answers next, or NOTHING
          held        \* what the MB-SMF holds

vars == <<want, pending, held>>

Init == /\ want \in Status
        /\ pending = want
        /\ held = NOTHING

\* The MBSF asks for something else; it is sent at once when nothing is on
\* its way.
Write(value) == /\ want \notin {value, DELETE}
                /\ want' = value
                /\ pending' = IF pending = NOTHING THEN value ELSE pending
                /\ UNCHANGED held

\* The MB-SMF accepts or refuses what is on its way, and what is wanted by
\* now follows if it differs.  A refused request is not repeated.
Answer(ok) == /\ pending # NOTHING
              /\ held' = IF ok THEN pending ELSE held
              /\ pending' = IF pending = want THEN NOTHING ELSE want
              /\ UNCHANGED want

Next == \/ \E value \in Status \cup {DELETE} : Write(value)
        \/ \E ok \in BOOLEAN : Answer(ok)

Spec == Init /\ [][Next]_vars
=============================================================================
