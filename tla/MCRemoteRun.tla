----------------------------- MODULE MCRemoteRun -----------------------------
(***************************************************************************)
(* An instance of RemoteRun: three pieces of output, one more than the two *)
(* that are kept, and statuses of one, two and three digits, one of them   *)
(* the number that stands for a timeout.                                   *)
(***************************************************************************)
EXTENDS RemoteRun

MCOutput == <<"o1", "o2", "o3">>
MCDigits == {"0", "1", "2", "4"}
MCStatuses == {<<"0">>, <<"1">>, <<"1", "2">>, <<"1", "2", "4">>}
=============================================================================
