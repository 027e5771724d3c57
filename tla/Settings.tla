------------------------------ MODULE Settings ------------------------------
(***************************************************************************)
(* What the configuration promises to whoever loads it and reads it as a   *)
(* whole: a load takes effect at one moment, for every variable its file   *)
(* names; a reading shows the settings of one moment; and loading a        *)
(* reading restores it.  Only variables in Throwing, whose listener may    *)
(* throw, may miss a load.                                                 *)
(***************************************************************************)
EXTENDS Naturals, Sequences, Functions

CONSTANTS
  Decl, Default,   \* the variables and their defaults
  Throwing,        \* those whose listener may throw
  File,            \* what may be loaded
  Offers,          \* the values a file offers a variable: a sequence of sets
  Restorable(_, _) \* what a reading shows of a variable can be read back

VARIABLES
  settings,  \* values of the variables that exist
  readings   \* the readings so far

Init == settings = <<>> /\ readings = {}

Create(d) ==
  /\ d \notin DOMAIN settings
  /\ settings' = [e \in DOMAIN settings \cup {d} |->
                    IF e = d THEN Default[d] ELSE settings[e]]
  /\ UNCHANGED readings

(* The last value offered counts; a variable whose listener throws may     *)
(* keep its value or an earlier offer.                                     *)
After(d, file) ==
  LET offers == Offers[file][d]
      old    == {settings[d]}
      last   == IF offers = <<>> THEN old ELSE offers[Len(offers)]
  IN  last \cup IF d \in Throwing THEN old \cup UNION Range(offers) ELSE {}

Load(file) ==
  /\ DOMAIN settings' = DOMAIN settings
  /\ \A d \in DOMAIN settings : settings'[d] \in After(d, file)
  /\ UNCHANGED readings

Restore(reading) ==
  /\ DOMAIN settings' = DOMAIN settings
  /\ \A d \in DOMAIN settings \ Throwing :
       IF d \notin DOMAIN reading THEN settings'[d] = settings[d]
       ELSE settings'[d] = reading[d] \/ ~ Restorable(reading, d)
  /\ UNCHANGED readings

Read == readings' = readings \cup {settings} /\ UNCHANGED settings

Next ==
  \/ \E d \in Decl : Create(d)
  \/ \E file \in File : Load(file)
  \/ \E reading \in readings : Restore(reading)
  \/ Read

Spec == Init /\ [][Next]_<<settings, readings>>
=============================================================================
