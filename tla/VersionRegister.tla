-------------------------- MODULE VersionRegister --------------------------
(***************************************************************************)
(* What a form's version history promises, whoever writes it and however   *)
(* the writes interleave: version numbers are handed out one after the     *)
(* other, none is handed out twice or taken back, and the number served is *)
(* always one of them.  FormVersions implements it.                        *)
(***************************************************************************)
EXTENDS Naturals

VARIABLES
    numbers,    \* the version numbers handed out
    served      \* the number the form serves, 0 before the first

IsNext(n) ==
    /\ n \in Nat \ {0}
    /\ n \notin numbers
    /\ n - 1 \in numbers \cup {0}
    /\ \A m \in numbers : m < n

\* A new version takes the next number, and is served.
Append ==
    /\ IsNext(served')
    /\ numbers' = numbers \cup {served'}

\* An existing version is served again.
Serve ==
    /\ served' \in numbers
    /\ UNCHANGED numbers

RegisterInit ==
    \/ numbers = {} /\ served = 0
    \/ numbers = {1} /\ served = 1

RegisterSpec == RegisterInit /\ [][Append \/ Serve]_<<numbers, served>>

=============================================================================
