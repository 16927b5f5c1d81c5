----------------------------- MODULE MCClients ------------------------------
(***************************************************************************)
(* Two processes and the control device.                                   *)
(***************************************************************************)
EXTENDS Clients, TLC

MCHandles == Processes \X {"device", "probe"}

\* One process runs every program that comes to an end, one after another, the
\* other one those that hold the session as long as they like.
CONSTANTS p1, p2
MCRepertoire ==
  p1 :> {"status", "on", "off", "jitter", "test", "QuickVerify", "QuickVerifyHid",
         "AutoVerify", "XInputCheck", "TestFeeder"} @@
  p2 :> {"Feeder", "Producer"}

\* For the runs about one tool and one competitor.
FeederAndOff == p1 :> {"Feeder"} @@ p2 :> {"off"}
OneTest == p1 :> {"test"} @@ p2 :> {"status"}

=============================================================================
