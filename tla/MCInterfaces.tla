---------------------------- MODULE MCInterfaces ---------------------------
(* Connections to IP modules, sessions without IP clients, clients of the   *)
(* IP interface, and MQTT, on small instances for TLC: one module after the *)
(* other.  Only the variables of the module that "part" names change.       *)
(* IPConnection is extended, the others are instances.  The cfg has the     *)
(* constants of a bare connection; two messages, each a header and one or   *)
(* three blocks, and segments that end between and inside blocks; and three *)
(* clients whose numbers wrap before all of them are there.                 *)
EXTENDS IPConnection

CONSTANTS t1, t2, t3, t4, t5, t6, Main, client1, client2, client3,
  Lengths, MaxMessages, Cuts,    \* of IPFraming
  Clients, Messages, Numbers     \* of ClientFanout

ASSUME FramingAssumption == /\ Lengths \subseteq Nat /\ MaxMessages \in Nat
                            /\ Cuts \subseteq Nat
ASSUME FanoutAssumption == "PAI" \notin Clients /\ Numbers \in Nat \ {0}

VARIABLES part,
  lengths, received, start, ends, delivered, failed,
  paiState, conn, panel, mainPc, session, exitPc, errorPc, clientPc, alarmGone, critical,
  orphaned,
  handlers, clientNr, number, client, said, connected, index, got, due, disturbed, shared,
  runState, value, states, last, reporting, cache, publishing, republish, calls, online,
  drops, out, shown, overlap, raced

Framing == INSTANCE IPFraming

\* No IP client: run_loop is the only task that connects.
Alone == INSTANCE Lifecycle
  WITH runState <- paiState, step <- session, Clients <- {},
       CloseInTime <- TRUE, PasswordErrors <- FALSE

Fanout == INSTANCE ClientFanout

\* The run state changes twice, or the property does; the broker is lost once.
Status == INSTANCE MQTTBridge
  WITH connected <- online, MaxStates <- 2, MaxValues <- 0, MaxDrops <- 1
Values == INSTANCE MQTTBridge
  WITH connected <- online, MaxStates <- 0, MaxValues <- 2, MaxDrops <- 1

framingVars == <<lengths, received, start, ends, delivered, failed>>
sessionVars == <<paiState, conn, panel, mainPc, session, exitPc, errorPc, clientPc,
                alarmGone, critical, orphaned>>
fanoutVars == <<handlers, clientNr, number, client, said, connected, index, got, due,
                disturbed, shared>>
mqttVars == <<runState, value, states, last, reporting, cache, publishing, republish,
              calls, online, drops, out, shown, overlap, raced>>

allVars == <<part, framingVars, vars, sessionVars, fanoutVars, mqttVars>>

InitOfParts ==
  /\ part \in {"framing", "bare", "alone", "fanout", "status", "values"}
  /\ IF part = "framing" THEN Framing!Init
     ELSE /\ lengths = <<>> /\ received = 0 /\ start = 0 /\ ends = {}
          /\ delivered = <<>> /\ failed = FALSE
  /\ Init
  /\ Alone!Init
  /\ Fanout!Init
  /\ Status!Init

NextOfParts ==
  /\ UNCHANGED part
  /\ \/ /\ part = "framing" /\ Framing!Next
        /\ UNCHANGED <<vars, sessionVars, fanoutVars, mqttVars>>
     \/ /\ part = "bare" /\ Next
        /\ UNCHANGED <<framingVars, sessionVars, fanoutVars, mqttVars>>
     \/ /\ part = "alone" /\ Alone!Next
        /\ UNCHANGED <<framingVars, vars, fanoutVars, mqttVars>>
     \/ /\ part = "fanout" /\ Fanout!Next
        /\ UNCHANGED <<framingVars, vars, sessionVars, mqttVars>>
     \/ /\ part = "status" /\ Status!Next
        /\ UNCHANGED <<framingVars, vars, sessionVars, fanoutVars>>
     \/ /\ part = "values" /\ Values!Next
        /\ UNCHANGED <<framingVars, vars, sessionVars, fanoutVars>>

\* MQTTBridge!Fairness, in its parts: these actions do not depend on the bounds.
Bridge == part \in {"status", "values"}

BridgeFairness ==
  /\ WF_mqttVars(Bridge /\ Values!Deliver)
  /\ WF_mqttVars(Bridge /\ Values!OnConnect)
  /\ WF_mqttVars(Bridge /\ Values!Report("main"))
  /\ WF_mqttVars(Bridge /\ Values!Report("network"))
  /\ WF_mqttVars(Bridge /\ Values!QueueCall)
  /\ WF_mqttVars(Bridge /\ Values!RunCall)
  /\ WF_mqttVars(Bridge /\ Values!BeginRepublish)
  /\ WF_mqttVars(Bridge /\ Values!Republish)

\* Lifecycle!Fairness.
SessionFairness ==
  /\ WF_sessionVars(part = "alone" /\ Alone!MainStep)
  /\ WF_sessionVars(part = "alone" /\ Alone!ConnectStep(Main))
  /\ WF_sessionVars(part = "alone" /\ (Alone!ExitClosed \/ Alone!ExitCloseTimesOut))
  /\ WF_sessionVars(part = "alone" /\ Alone!ErrorClosed)

SpecOfParts ==
  InitOfParts /\ [][NextOfParts]_allVars /\ BridgeFairness /\ SessionFairness

-----------------------------------------------------------------------------
(* The properties of the modules, each in its part; NoTransportLeft and     *)
(* LossIsOwn are those of IPConnection.                                    *)

\* IPFraming: data_received gives the handler whole messages, in order, but for those
\* cut between two blocks.
OnlyWholeMessages == part = "framing" => Framing!OnlyWholeMessages

\* Lifecycle: run_state is RUN only with the panel object of the model found.
RunMeansIdentified == part = "alone" => Alone!RunMeansIdentified

\* Lifecycle: a critical exception stops PAI.
CriticalStops == part = "alone" => Alone!CriticalStops

\* Lifecycle: a signal stops PAI.
SignalStops == part = "alone" => Alone!SignalStops

\* ClientFanout: clients that stay get every message, unless others leave or fail.
MissedOnlyByLeaving == part = "fanout" => Fanout!MissedOnlyByLeaving

\* MQTTBridge: the broker ends up showing the run state.
StatusSettles == part = "status" => Status!StatusSettles

\* MQTTBridge: the broker ends up showing the last value.
ValueReachesBroker == part = "values" => Values!ValueReachesBroker
==============================================================================
