------------------------------- MODULE Subject -------------------------------
(***************************************************************************)
(* What the modules of the example programs share.  The engine mutates one *)
(* program under test (PUT) at a time; a behaviour is the life of one      *)
(* structure of one of them under the calls its API allows.                *)
(***************************************************************************)
VARIABLES
    subject,   \* name of the example program
    obj,       \* its data structure
    abs        \* history: the value the structure stands for

subjectVars == <<subject, obj, abs>>

NULL == 0      \* a null pointer; items and node addresses are positive

\* A call leaves the structure o, which stands for a
Becomes(o, a) == obj' = o /\ abs' = a /\ UNCHANGED subject
=============================================================================
