------------------------------- MODULE Procmonel -------------------------------
(***************************************************************************)
(* The driver and the console of this build, side by side.                 *)
(*                                                                         *)
(* The console can only reach the driver through its communication port,   *)
(* and no function of the driver creates one: the call in DriverEntry is   *)
(* commented out.  So Console runs with a server that is "down" for good.  *)
(***************************************************************************)
EXTENDS FilterDriver

CONSTANTS Listeners, MayFail, QueueLimit

VARIABLES
  main, step, gDriverPort, port, gTerminationEvent, buffer, hEvent, io,
  server, queue,   (* Those of the console; its pc is step here.           *)
  refusedAt        (* History: where the driver was when the console was   *)
                   (* not connected, or "never".                           *)

console == <<main, step, gDriverPort, port, gTerminationEvent, buffer, hEvent,
             io, server, queue>>
pvars   == <<dvars, console, refusedAt>>

C == INSTANCE Console WITH pc <- step

PInit ==
  /\ DInit
  /\ C!Init
  /\ server = "down"
  /\ refusedAt = "never"

(* The driver is loaded, called and unloaded.                              *)
DriverSteps == DNext /\ UNCHANGED <<console, refusedAt>>

(* The console tries to connect; main prints that it is unable to, asks    *)
(* whether the driver is running, and returns.                             *)
ConsoleSteps ==
  /\ C!Next
  /\ refusedAt' = IF main = "connect" /\ main' = "failed" THEN pc ELSE refusedAt
  /\ UNCHANGED dvars

PNext == DriverSteps \/ ConsoleSteps

PSpec == PInit /\ [][PNext]_pvars

(* The driver is not running where the console is not connected to it:     *)
(* what its message suggests (Main.c), and what the README says it is for. *)
RunningDriverIsReached == refusedAt # "Running"
=============================================================================
