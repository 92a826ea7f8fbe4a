------------------------------ MODULE Notification ------------------------------
(***************************************************************************)
(* Subscriptions to on-chain events: the web-socket and http handlers of   *)
(* the daemon, the notification service under them, and their shutdown.    *)
(*                                                                         *)
(* Between the clients and the scanner work four goroutines that exchange  *)
(* subscribers and reports on unbuffered channels:                         *)
(*   handlerSubs  handleSubscribers of the handler                         *)
(*   notifier     handleOnChainNotifications of the handler                *)
(*   events       handleOnChainEvents of the service                       *)
(*   serviceSubs  handleSubscribers of the service                         *)
(* besides one goroutine for each connection and for each request passed   *)
(* to the service.                                                         *)
(*                                                                         *)
(* A connection has a subscriber ID of its own, so it stands for both.  Of *)
(* the scanner (see Scanner) only the send of its reports is modelled: its *)
(* watches are persistent and nothing takes them back.  What is written to *)
(* a connection is taken to leave; the text of answers is left out.        *)
(***************************************************************************)
EXTENDS Naturals

CONSTANTS
  Ws, Http,     \* the connections of each kind
  NoClient,
  MaxMessages,  \* bound: the messages on a web-socket
  MaxReports    \* bound: the reports of the scanner

Client == Ws \cup Http

ASSUME NotificationAssumption ==
  /\ Ws \cap Http = {} /\ NoClient \notin Client
  /\ MaxMessages \in Nat /\ MaxReports \in Nat

VARIABLES
  conn,           \* conn[c]: where the goroutine of the connection is
  messages,       \* messages[c]: the messages read from it
  known,          \* the keys of the handler's map subscribers
  subscribed,     \* the keys of the service's map subscribers
  registering,    \* registering[c][d]: the goroutines that send c on the service's
                  \*   registerSubs, with a descriptor that d (can be watched or not)
  unregistering,  \* unregistering[c]: those that send c on its unregisterSubs
  watched,        \* the subscribers the scanner watches for
  report,         \* whose report the scanner is sending
  reports,        \* the number of its reports
  handlerSubs, notifier, events, serviceSubs,
  stop,           \* where the shutdown is
  process         \* "up", or "race": killed by the runtime

connVars == <<conn, messages>>
requestVars == <<registering, unregistering>>
scannerVars == <<watched, report, reports>>
shutVars == <<stop, process>>
vars == <<connVars, known, subscribed, requestVars, scannerVars,
          handlerSubs, notifier, events, serviceSubs, shutVars>>

NoRequest == [d \in BOOLEAN |-> 0]

(* A goroutine with the subscriber it has in hand                          *)
At(place, c) == [at |-> place, c |-> c]
Select == At("select", NoClient)
Off == At("off", NoClient)     \* returned
Dead == At("dead", NoClient)   \* returned after a panic it recovered

(* new         not accepted                                                *)
(* register    sending itself on the handler's registerSubs                *)
(* read        reading a message, or the body of the http request          *)
(* answer      writing an answer                                           *)
(* unregister  sending itself on the handler's unregisterSubs              *)
(* gone        returned, the connection closed                             *)
ConnState == {"new", "register", "read", "answer", "unregister", "gone"}

(* Stop sends a quit to each goroutine in turn, the one named is next.     *)
StopState == {"no", "handlerSubs", "notifier", "events", "serviceSubs", "done"}

Init ==
  /\ conn = [c \in Client |-> "new"]
  /\ messages = [c \in Client |-> 0]
  /\ known = {} /\ subscribed = {}
  /\ registering = [c \in Client |-> NoRequest]
  /\ unregistering = [c \in Client |-> 0]
  /\ watched = {} /\ report = NoClient /\ reports = 0
  /\ handlerSubs = Select /\ notifier = Select /\ events = Select /\ serviceSubs = Select
  /\ stop = "no" /\ process = "up"

Up == process = "up"

-----------------------------------------------------------------------------
(* The service's part, called by the handlers                              *)

(* Subscribe, once validate has accepted the request                       *)
Subscribe(c, d) == registering' = [registering EXCEPT ![c][d] = @ + 1]

(* UnSubscribe reads the map of serviceSubs without a lock.                *)
UnSubscribe(c) ==
  unregistering' = IF c \in subscribed THEN [unregistering EXCEPT ![c] = @ + 1]
                   ELSE unregistering

(* While that map is written the runtime may end the process instead.      *)
WritesSubscribed == serviceSubs.at \in {"put", "putBad", "drop"}

-----------------------------------------------------------------------------
(* The connections                                                         *)

(* Shutdown of the http server accepts no more.                            *)
Connect(c) ==
  /\ Up /\ conn[c] = "new" /\ stop = "no"
  /\ conn' = [conn EXCEPT ![c] = "register"]
  /\ UNCHANGED <<messages, known, subscribed, requestVars, scannerVars,
                 handlerSubs, notifier, events, serviceSubs, shutVars>>

(* d.registerSubs <- subscriber                                            *)
RegisterConn(c) ==
  /\ Up /\ conn[c] = "register" /\ handlerSubs = Select
  /\ conn' = [conn EXCEPT ![c] = "read"]
  /\ handlerSubs' = At("add", c)
  /\ UNCHANGED <<messages, known, subscribed, requestVars, scannerVars,
                 notifier, events, serviceSubs, shutVars>>

(* The request of an http client has been read before it registers: it is  *)
(* a registration, or one that leaves no trace (refused by validate, an    *)
(* unregister of the ID just made, an unknown action), except that the     *)
(* unregister looks for that ID in n.subscribers, which may be written.    *)
HttpRequest(c) ==
  /\ Up /\ c \in Http /\ conn[c] = "read"
  /\ \/ /\ conn' = [conn EXCEPT ![c] = "gone"]
        /\ (\E d \in BOOLEAN : Subscribe(c, d)) \/ UNCHANGED registering
        /\ UNCHANGED shutVars
     \/ /\ WritesSubscribed /\ process' = "race"
        /\ UNCHANGED <<conn, registering, stop>>
  /\ UNCHANGED <<messages, known, subscribed, unregistering, scannerVars,
                 handlerSubs, notifier, events, serviceSubs>>

Reads(c) ==
  /\ Up /\ c \in Ws /\ conn[c] = "read" /\ messages[c] < MaxMessages
  /\ messages' = [messages EXCEPT ![c] = @ + 1]
  /\ UNCHANGED <<known, subscribed, scannerVars, handlerSubs, notifier, events, serviceSubs>>

SeesAnything(c) == TRUE   \* a mutant of SeesItself

(* getSubscriberSafe returns the subscriber of the connection.             *)
SeesItself(c) == c \in known

(* A message that is not JSON, or that comes before handlerSubs has added  *)
(* the subscriber (the type assertion panics): the goroutine returns and   *)
(* does not unregister.                                                    *)
BadMessage(c) ==
  /\ Reads(c)
  /\ conn' = [conn EXCEPT ![c] = "gone"]
  /\ UNCHANGED <<requestVars, shutVars>>

(* An unknown event or action, or a request that validate refuses          *)
RefusedMessage(c) ==
  /\ Reads(c) /\ SeesItself(c)
  /\ conn' = [conn EXCEPT ![c] = "answer"]
  /\ UNCHANGED <<requestVars, shutVars>>

RegisterMessage(c) ==
  /\ Reads(c) /\ SeesItself(c)
  /\ conn' = [conn EXCEPT ![c] = "answer"]
  /\ \E d \in BOOLEAN : Subscribe(c, d)
  /\ UNCHANGED <<unregistering, shutVars>>

UnregisterMessage(c) ==
  /\ Reads(c) /\ SeesItself(c)
  /\ \/ /\ conn' = [conn EXCEPT ![c] = "answer"]
        /\ UnSubscribe(c)
        /\ UNCHANGED shutVars
     \/ /\ WritesSubscribed /\ process' = "race"
        /\ UNCHANGED <<conn, unregistering, stop>>
  /\ UNCHANGED registering

Answer(c) ==
  /\ Up /\ conn[c] = "answer"
  /\ conn' = [conn EXCEPT ![c] = "read"]
  /\ UNCHANGED <<messages, known, subscribed, requestVars, scannerVars,
                 handlerSubs, notifier, events, serviceSubs, shutVars>>

(* The client leaves, or its connection breaks.                            *)
ReadError(c) ==
  /\ Up /\ c \in Ws /\ conn[c] = "read"
  /\ conn' = [conn EXCEPT ![c] = "unregister"]
  /\ UNCHANGED <<messages, known, subscribed, requestVars, scannerVars,
                 handlerSubs, notifier, events, serviceSubs, shutVars>>

-----------------------------------------------------------------------------
(* handlerSubs                                                             *)

AddSubscriber ==
  /\ Up /\ handlerSubs.at = "add"
  /\ known' = known \cup {handlerSubs.c}
  /\ handlerSubs' = Select
  /\ UNCHANGED <<connVars, subscribed, requestVars, scannerVars,
                 notifier, events, serviceSubs, shutVars>>

WithoutNone(c) == known   \* a mutant of Without

Without(c) == known \ {c}

(* d.unregisterSubs <- subscriber: it is deleted.                          *)
DeleteSubscriber(c) ==
  /\ Up /\ conn[c] = "unregister" /\ handlerSubs = Select
  /\ conn' = [conn EXCEPT ![c] = "gone"]
  /\ known' = Without(c)
  /\ handlerSubs' = At("unsubscribe", c)
  /\ UNCHANGED <<messages, subscribed, requestVars, scannerVars,
                 notifier, events, serviceSubs, shutVars>>

UnsubscribeDeleted ==
  /\ Up /\ handlerSubs.at = "unsubscribe"
  /\ \/ /\ handlerSubs' = Select
        /\ UnSubscribe(handlerSubs.c)
        /\ UNCHANGED shutVars
     \/ /\ WritesSubscribed /\ process' = "race"
        /\ UNCHANGED <<handlerSubs, unregistering, stop>>
  /\ UNCHANGED <<connVars, known, subscribed, registering, scannerVars,
                 notifier, events, serviceSubs>>

-----------------------------------------------------------------------------
(* serviceSubs                                                             *)

(* n.registerSubs <- subscriber                                            *)
TakeRegistration(c, d) ==
  /\ Up /\ registering[c][d] > 0 /\ serviceSubs = Select
  /\ registering' = [registering EXCEPT ![c][d] = @ - 1]
  /\ serviceSubs' = At(IF d THEN "put" ELSE "putBad", c)
  /\ UNCHANGED <<connVars, known, subscribed, unregistering, scannerVars,
                 handlerSubs, notifier, events, shutVars>>

(* The map is written, then WatchDescriptorWallet is called.               *)
Register ==
  /\ Up /\ serviceSubs.at \in {"put", "putBad"}
  /\ subscribed' = subscribed \cup {serviceSubs.c}
  /\ IF serviceSubs.at = "put"
     THEN /\ watched' = watched \cup {serviceSubs.c}
          /\ serviceSubs' = Select
     ELSE /\ serviceSubs' = At("error", serviceSubs.c)
          /\ UNCHANGED watched
  /\ UNCHANGED <<connVars, known, requestVars, report, reports,
                 handlerSubs, notifier, events, shutVars>>

(* n.unregisterSubs <- subscriber                                          *)
TakeUnregistration(c) ==
  /\ Up /\ unregistering[c] > 0 /\ serviceSubs = Select
  /\ unregistering' = [unregistering EXCEPT ![c] = @ - 1]
  /\ serviceSubs' = At("drop", c)
  /\ UNCHANGED <<connVars, known, subscribed, registering, scannerVars,
                 handlerSubs, notifier, events, shutVars>>

Unregister ==
  /\ Up /\ serviceSubs.at = "drop"
  /\ subscribed' = subscribed \ {serviceSubs.c}
  /\ serviceSubs' = Select
  /\ UNCHANGED <<connVars, known, requestVars, scannerVars,
                 handlerSubs, notifier, events, shutVars>>

-----------------------------------------------------------------------------
(* Reports: scanner, events, notifier                                      *)

ScannerReports(c) ==
  /\ Up /\ c \in watched /\ report = NoClient /\ reports < MaxReports
  /\ report' = c
  /\ reports' = reports + 1
  /\ UNCHANGED <<connVars, known, subscribed, requestVars, watched,
                 handlerSubs, notifier, events, serviceSubs, shutVars>>

TakeReport ==
  /\ Up /\ report # NoClient /\ events = Select
  /\ events' = At("send", report)
  /\ report' = NoClient
  /\ UNCHANGED <<connVars, known, subscribed, requestVars, watched, reports,
                 handlerSubs, notifier, serviceSubs, shutVars>>

(* a mutant of Notifies: it returns where the client has left              *)
NotifiesThere(c) == IF c \in known /\ conn[c] # "gone" THEN Select ELSE Off

(* The notifier looks the subscriber up.  If there is none the call of its *)
(* Type() panics; recover is outside of the loop.  A failed write (the     *)
(* client has left) is logged, and so is one that panics because the       *)
(* connection's own goroutine writes.                                      *)
Notifies(c) == IF c \in known THEN Select ELSE Dead

(* n.subsEventReport <- report                                             *)
NotifyEvent ==
  /\ Up /\ events.at = "send" /\ notifier = Select
  /\ notifier' = Notifies(events.c)
  /\ events' = Select
  /\ UNCHANGED <<connVars, known, subscribed, requestVars, scannerVars,
                 handlerSubs, serviceSubs, shutVars>>

(* n.subsErrorReport <- report, after which serviceSubs returns            *)
NotifyError ==
  /\ Up /\ serviceSubs.at = "error" /\ notifier = Select
  /\ notifier' = Notifies(serviceSubs.c)
  /\ serviceSubs' = Off
  /\ UNCHANGED <<connVars, known, subscribed, requestVars, scannerVars,
                 handlerSubs, events, shutVars>>

-----------------------------------------------------------------------------
(* Shutdown                                                                *)

Shutdown ==
  /\ Up /\ stop = "no"
  /\ stop' = "handlerSubs"
  /\ UNCHANGED <<connVars, known, subscribed, requestVars, scannerVars,
                 handlerSubs, notifier, events, serviceSubs, process>>

(* quitHandleSubscribers and the others: each is received at a select.     *)
QuitHandlerSubs ==
  /\ stop = "handlerSubs" /\ handlerSubs = Select
  /\ handlerSubs' = Off /\ stop' = "notifier"
  /\ UNCHANGED <<notifier, events, serviceSubs>>
QuitNotifier ==
  /\ stop = "notifier" /\ notifier = Select
  /\ notifier' = Off /\ stop' = "events"
  /\ UNCHANGED <<handlerSubs, events, serviceSubs>>
QuitEvents ==
  /\ stop = "events" /\ events = Select
  /\ events' = Off /\ stop' = "serviceSubs"
  /\ UNCHANGED <<handlerSubs, notifier, serviceSubs>>
QuitServiceSubs ==
  /\ stop = "serviceSubs" /\ serviceSubs = Select
  /\ serviceSubs' = Off /\ stop' = "done"
  /\ UNCHANGED <<handlerSubs, notifier, events>>

Quit ==
  /\ Up
  /\ QuitHandlerSubs \/ QuitNotifier \/ QuitEvents \/ QuitServiceSubs
  /\ UNCHANGED <<connVars, known, subscribed, requestVars, scannerVars, process>>

-----------------------------------------------------------------------------

Message(c) == BadMessage(c) \/ RefusedMessage(c) \/ RegisterMessage(c) \/ UnregisterMessage(c)

HandlerSubs == AddSubscriber \/ UnsubscribeDeleted
ServiceSubs == Register \/ Unregister
TakeRequest ==
  \E c \in Client : (\E d \in BOOLEAN : TakeRegistration(c, d)) \/ TakeUnregistration(c)
Notify == NotifyEvent \/ NotifyError

Next ==
  \/ \E c \in Client : \/ Connect(c)
                       \/ RegisterConn(c)
                       \/ HttpRequest(c)
                       \/ Message(c)
                       \/ Answer(c)
                       \/ ReadError(c)
                       \/ DeleteSubscriber(c)
                       \/ ScannerReports(c)
  \/ HandlerSubs
  \/ ServiceSubs
  \/ TakeRequest
  \/ TakeReport
  \/ Notify
  \/ Shutdown
  \/ Quit

(* Goroutines that can run do.  A select is fair among its channels, so    *)
(* that requests and quits are served in turn: hence SF.  Clients, the     *)
(* scanner and the operator do what they like.                             *)
Fairness ==
  /\ WF_vars(HandlerSubs) /\ WF_vars(ServiceSubs)
  /\ WF_vars(TakeReport) /\ WF_vars(Notify) /\ SF_vars(TakeRequest) /\ SF_vars(Quit)

Spec == Init /\ [][Next]_vars /\ Fairness

-----------------------------------------------------------------------------
(* Properties                                                              *)

(* Every variable has its type; a connection that was lost before it was   *)
(* used is not remembered.                                                 *)
TypeOK ==
  /\ conn \in [Client -> ConnState] /\ messages \in [Client -> 0..MaxMessages]
  /\ known \in SUBSET Client /\ subscribed \in SUBSET Client
  /\ registering \in [Client -> [BOOLEAN -> Nat]] /\ unregistering \in [Client -> Nat]
  /\ watched \in SUBSET Client /\ report \in Client \cup {NoClient}
  /\ reports \in 0..MaxReports
  /\ handlerSubs \in [at : {"add", "unsubscribe"}, c : Client] \cup {Select, Off}
  /\ notifier \in {Select, Off, Dead}
  /\ events \in [at : {"send"}, c : Client] \cup {Select, Off}
  /\ serviceSubs \in [at : {"put", "putBad", "error", "drop"}, c : Client] \cup {Select, Off}
  /\ stop \in StopState /\ process \in {"up", "race"}
  /\ \A c \in Ws : conn[c] = "gone" /\ messages[c] = 0 => c \notin known

(* The notifier dies of a report for a subscriber it does not know.  That  *)
(* is, in any order of connections, messages and reports, a web-socket     *)
(* client that has left with its watch on, never one still connected: its  *)
(* goroutine waits to see itself in the map before it subscribes.  An http *)
(* handler does not wait, so its client may be on the way into the map.    *)
DiesOnlyForAbsent ==
  [][notifier' = Dead /\ notifier # Dead =>
       LET c == IF events' # events THEN events.c ELSE serviceSubs.c IN
       \/ c \in Ws /\ conn[c] = "gone"
       \/ c \in Http /\ handlerSubs = At("add", c)]_vars

(* What the service does is of no interest once it is being shut down, or  *)
(* the runtime has ended the process.                                      *)
Interrupted == stop # "no" \/ ~Up

(* A report of the scanner is taken by handleOnChainEvents unless the      *)
(* notifier is dead, whatever the other goroutines wait for.               *)
ReportsTaken == report # NoClient ~> report = NoClient \/ notifier = Dead \/ Interrupted

(* A registration is taken by serviceSubs, whatever the clients and the    *)
(* scanner do, while both it and the notifier live.  Exempt are a          *)
(* serviceSubs that has returned, because a descriptor could not be        *)
(* watched, and all that follows the death of the notifier, for which      *)
(* serviceSubs may have an error.                                          *)
RequestsTaken ==
  \A c \in Client :
    registering[c] # NoRequest ~>
      registering[c] = NoRequest \/ serviceSubs = Off \/ notifier = Dead \/ Interrupted

(* Stop waits for goroutines that return only when asked to: for good, if  *)
(* one has returned before, or waits for one that was asked before it.     *)
Wedged ==
  \/ notifier = Dead /\ stop \in {"handlerSubs", "notifier"}
  \/ serviceSubs = Off /\ stop \in StopState \ {"no", "done"}
  \/ notifier = Off /\ (events.at = "send" \/ serviceSubs.at = "error")

(* Those are the only ways a shutdown does not end.                        *)
ShutdownEnds == stop # "no" ~> stop = "done" \/ Wedged \/ ~Up

(* "subsEventReport is a channel used to report events to subscribers"     *)
(* (notification_service.go:31): a report for a client that stays          *)
(* connected is taken from it.                                             *)
ReportsReachClients ==
  \A c \in Ws :
    events = At("send", c) ~>
      events # At("send", c) \/ conn[c] \in {"unregister", "gone"} \/ Interrupted

=============================================================================
