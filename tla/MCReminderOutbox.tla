-------------------------- MODULE MCReminderOutbox --------------------------
(***************************************************************************)
(* An instance of ReminderOutbox for TLC.                                  *)
(***************************************************************************)
EXTENDS ReminderOutbox, TLC

CONSTANTS o1, t1, t2

\* Callers give one operation two texts, the others one.
OneEdited == [o \in Op |-> IF o = o1 THEN {t1, t2} ELSE {t1}]

\* Callers give every operation one text.
OneEach == [o \in Op |-> {t1}]
=============================================================================
