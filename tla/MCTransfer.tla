------------------------------ MODULE MCTransfer ------------------------------
(***************************************************************************)
(* Small instances of Transfer for TLC: how often each fault may strike.   *)
(***************************************************************************)
EXTENDS Transfer

CONSTANTS Crashes, LostAnswers, FailedWrites, LostTokens, Expiries

MCMaxFaults ==
  [f \in Faults |->
     CASE f = "crash"      -> Crashes
       [] f = "answer"     -> LostAnswers
       [] f = "write"      -> FailedWrites
       [] f = "token"      -> LostTokens
       [] f = "credential" -> Expiries]
=============================================================================
