---------------------------- MODULE MCAppLifecycle ----------------------------
(***************************************************************************)
(* Constants of the TLC instances of AppLifecycle: three images one after  *)
(* the other, one of which cannot be mapped, and one image that everybody  *)
(* starts and stops at the same time, where ON counts the first time it    *)
(* is seen down.                                                           *)
(***************************************************************************)
EXTENDS AppLifecycle

CONSTANTS a, b, c

Turns == [usage |-> "turns", asked |-> {a, b, c}, missing |-> {c}, slots |-> 2,
          scans |-> 3]
Races == [usage |-> "any", asked |-> {a}, missing |-> {}, slots |-> 1,
          scans |-> 1]
OnKeyAlone == [usage |-> "oneOperator", asked |-> {a}, missing |-> {}, slots |-> 1,
               scans |-> 3]
TurnsAndRaces == {Turns, Races}
OnlyOnKey == {OnKeyAlone}
=============================================================================
