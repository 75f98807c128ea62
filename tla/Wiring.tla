-------------------------------- MODULE Wiring --------------------------------
(***************************************************************************)
(* What wiring promises.  A run owes every setting it is asked for.  It    *)
(* settles one by finding that it holds its value or by giving it that     *)
(* value, or it entrusts it to the multisig, which gives it later; and it  *)
(* says that it is done only when it owes nothing.  Others may change a    *)
(* setting at any time.                                                    *)
(***************************************************************************)
VARIABLES holds,      \* <<network, setting>> pairs that hold their value
          owed, entrusted, running, done

wiringVars == <<holds, owed, entrusted, running, done>>

WiringInit == owed = {} /\ entrusted = {} /\ ~running /\ ~done

\* owed' is whatever the run is asked for.
Ask == ~running /\ running' /\ ~done' /\ UNCHANGED <<holds, entrusted>>

Settle(x) ==
  /\ running /\ x \in holds' /\ holds' = holds \cup {x} /\ owed' = owed \ {x}
  /\ UNCHANGED <<entrusted, running, done>>

\* The setting was given its value and the run does not know it.
Miss(x) ==
  /\ running /\ holds' = holds \cup {x}
  /\ UNCHANGED <<owed, entrusted, running, done>>

Entrust ==
  /\ running /\ owed' \subseteq owed /\ entrusted' = entrusted \cup (owed \ owed')
  /\ UNCHANGED <<holds, running, done>>

Carry ==
  /\ entrusted' \subseteq entrusted /\ holds \subseteq holds'
  /\ holds' \ holds \subseteq entrusted /\ entrusted \ entrusted' \subseteq holds'
  /\ UNCHANGED <<owed, running, done>>

Lose(x) == x \in holds /\ holds' = holds \ {x} /\ UNCHANGED <<owed, entrusted, running, done>>

End == running /\ ~running' /\ (done' => owed = {}) /\ UNCHANGED <<holds, owed, entrusted>>

WiringNext ==
  \/ Ask \/ Entrust \/ Carry \/ End
  \/ \E x \in owed : Settle(x) \/ Miss(x)
  \/ \E x \in holds : Lose(x)

WiringSpec == WiringInit /\ [][WiringNext]_wiringVars
=============================================================================
