------------------------- MODULE IdempotentCreation -------------------------
(***************************************************************************)
(* What a request with an idempotency key promises: an operation makes at  *)
(* most one result, a result belongs to one operation, nothing made is     *)
(* unmade, and whoever asks for the operation, however often and however   *)
(* concurrently, is told that result and only once it exists.              *)
(***************************************************************************)
CONSTANTS
  Operation,   \* what a caller may ask for: the key of a request
  Result       \* rows that may be created

VARIABLES
  made,   \* what was made: <<operation, result>>
  told    \* what callers were told: <<operation, result>>

CreationInit == made = {} /\ told = {}

\* The first caller, who may be told at once.
Make(o, r) ==
  /\ \A m \in made : m[1] # o /\ m[2] # r
  /\ made' = made \cup {<<o, r>>}
  /\ told' \in {told, told \cup {<<o, r>>}}

\* A caller is told what the operation made before.
Tell(m) ==
  /\ told' = told \cup {m}
  /\ UNCHANGED made

CreationNext ==
  \/ \E m \in made : Tell(m)
  \/ \E o \in Operation, r \in Result : Make(o, r)

CreationSpec == CreationInit /\ [][CreationNext]_<<made, told>>

=============================================================================
