----------------------------- MODULE ClientFanout ---------------------------
(***************************************************************************)
(* How the bytes of the panel reach the clients of the IP interface: every *)
(* connection registers a raw handler after PAI's own, a message is handed *)
(* round the list by a task of its own, and that task may be suspended in  *)
(* the drain() of every client while clients come and go and the list      *)
(* changes under the loop (HandlerRegistry.handle).                        *)
(***************************************************************************)
EXTENDS Integers, Sequences

CONSTANTS
  Clients,    \* connections to the IP interface
  Messages,   \* messages of the panel
  Numbers     \* the literal 256 of client_nr

PAI == [nr |-> Numbers, of |-> "PAI"]

VARIABLES
  handlers,   \* raw_handler_registry._handlers: PAI's first
  clientNr,   \* IPInterface.client_nr
  number,     \* the number each client was given
  client,     \* ClientConnection.handle: "out", "reading", "gone"
  said,       \* what the client did last: "nothing", "leaves", "eof", "reset"
  connected,  \* alarm.connection.connected
  index,      \* of the task of each message: 0 before it begins, Ended
  got,        \* the clients each message was written to
  due,        \* history: clients registered when the message came
  disturbed,  \* history: messages during which a client left or failed
  shared      \* history: two registered clients once had the same number

vars == <<handlers, clientNr, number, client, said, connected, index, got, due,
          disturbed, shared>>

Ended == -1

Running == {m \in Messages : index[m] \notin {0, Ended}}

Init ==
  /\ handlers = <<PAI>>
  /\ clientNr = 0
  /\ number = [c \in Clients |-> 0]
  /\ client = [c \in Clients |-> "out"]
  /\ said = [c \in Clients |-> "nothing"]
  /\ connected = TRUE
  /\ index = [m \in Messages |-> 0]
  /\ got = [m \in Messages |-> {}]
  /\ due = [m \in Messages |-> {}]
  /\ disturbed = {}
  /\ shared = FALSE

-----------------------------------------------------------------------------

\* handle_client, up to the await of pause().
Connect(c) ==
  /\ client[c] = "out"
  /\ client' = [client EXCEPT ![c] = "reading"]
  /\ clientNr' = (clientNr + 1) % Numbers
  /\ number' = [number EXCEPT ![c] = clientNr']
  /\ handlers' = Append(handlers, [nr |-> clientNr', of |-> c])
  /\ shared' = (shared \/ \E i \in DOMAIN handlers : handlers[i].nr = clientNr')
  /\ UNCHANGED <<said, connected, index, got, due, disturbed>>

\* What a client may do: leave with CloseConnection or by falling silent; a socket
\* that is closed in order reads as "no data".
Act(c) ==
  \E a \in {"leaves", "eof", "reset"} :
    /\ client[c] = "reading" /\ said[c] = "nothing"
    /\ said' = [said EXCEPT ![c] = a]
    /\ UNCHANGED <<handlers, clientNr, number, client, connected, index, got, due,
                   disturbed, shared>>

\* Mutant of RemoveByName: the handler registered last goes.
RemoveNewest(list, nr) ==
  IF Len(list) > 1 THEN SubSeq(list, 1, Len(list) - 1) ELSE list

\* remove_by_name: the filter runs over the list it removes from, so the handler
\* after a removed one is never looked at.
RemoveByName(list, nr) ==
  LET Look[i \in 0..Len(list)] ==
        IF i = 0 THEN [kept |-> <<>>, skip |-> FALSE]
        ELSE IF ~Look[i - 1].skip /\ list[i].nr = nr
        THEN [kept |-> Look[i - 1].kept, skip |-> TRUE]
        ELSE [kept |-> Append(Look[i - 1].kept, list[i]), skip |-> FALSE]
  IN Look[Len(list)].kept

\* handle() ends and handle_client deregisters the raw handler: CloseConnection came,
\* the read timed out or failed.  "No data" ends it only when the panel is gone: with
\* a panel, handle() reads the end of file over and over and PAI stays paused.
Leave(c) ==
  /\ client[c] = "reading"
  /\ \/ said[c] \in {"leaves", "reset"}
     \/ said[c] = "eof" /\ ~connected
  /\ client' = [client EXCEPT ![c] = "gone"]
  /\ handlers' = RemoveByName(handlers, number[c])
  /\ disturbed' = disturbed \cup Running
  /\ UNCHANGED <<clientNr, number, said, connected, index, got, due, shared>>

LosePanel ==
  /\ connected
  /\ connected' = FALSE
  /\ UNCHANGED <<handlers, clientNr, number, client, said, index, got, due, disturbed,
                 shared>>

\* The handler at index i of the list writes m to its client, and drain() raises if
\* the client is gone: then the rest of the list does not get m.
WriteTo(m, i) ==
  IF i > Len(handlers)
  THEN index' = [index EXCEPT ![m] = Ended] /\ UNCHANGED <<got, disturbed>>
  ELSE LET c == handlers[i].of IN
       \/ /\ client[c] = "reading" /\ said[c] # "reset"
          /\ index' = [index EXCEPT ![m] = i]
          /\ got' = [got EXCEPT ![m] = @ \cup {c}]
          /\ UNCHANGED disturbed
       \/ /\ client[c] = "gone" \/ said[c] \in {"reset", "eof"}
          /\ index' = [index EXCEPT ![m] = Ended]
          /\ disturbed' = IF client[c] = "gone" THEN disturbed ELSE disturbed \cup {m}
          /\ UNCHANGED got

\* A message of the panel: PAI's handler does not wait, so the first client is next
\* in the same step.
Begin(m) ==
  /\ index[m] = 0 /\ connected
  /\ due' = [due EXCEPT ![m] = {c \in Clients : client[c] = "reading"}]
  /\ WriteTo(m, 2)
  /\ UNCHANGED <<handlers, clientNr, number, client, said, connected, shared>>

\* drain() of the last client is over; the list may have changed since.
Proceed(m) ==
  /\ m \in Running
  /\ WriteTo(m, index[m] + 1)
  /\ UNCHANGED <<handlers, clientNr, number, client, said, connected, due, shared>>

Next ==
  \/ \E c \in Clients : Connect(c) \/ Act(c) \/ Leave(c)
  \/ \E m \in Messages : Begin(m) \/ Proceed(m)
  \/ LosePanel

Spec == Init /\ [][Next]_vars

-----------------------------------------------------------------------------

\* Every message reaches every client that was there before it came and is still
\* there, unless another client left or failed while it was handed round (the loop
\* then skips one, or ends), or two clients had the same number.  A client that left
\* before the message came takes nothing away from the others.
MissedOnlyByLeaving ==
  \A m \in Messages :
    (index[m] = Ended /\ m \notin disturbed /\ ~shared) =>
      {c \in due[m] : client[c] = "reading"} \subseteq got[m]
==============================================================================
