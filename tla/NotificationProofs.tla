--------------------------- MODULE NotificationProofs ---------------------------
(***************************************************************************)
(* Theorems about Notification, for any number of connections, messages    *)
(* and reports.                                                            *)
(***************************************************************************)
EXTENDS Notification, TLAPS

Types ==
  /\ conn \in [Client -> ConnState] /\ messages \in [Client -> 0..MaxMessages]
  /\ known \in SUBSET Client /\ subscribed \in SUBSET Client
  /\ registering \in [Client -> [BOOLEAN -> Nat]] /\ unregistering \in [Client -> Nat]
  /\ watched \in SUBSET Client /\ report \in Client \cup {NoClient}
  /\ reports \in 0..MaxReports
  /\ handlerSubs \in [at : {"add", "unsubscribe"}, c : Client] \cup {Select, Off}
  /\ notifier \in {Select, Off, Dead}
  /\ events \in [at : {"send"}, c : Client] \cup {Select, Off}
  /\ serviceSubs \in [at : {"put", "putBad", "error", "drop"}, c : Client] \cup {Select, Off}
  /\ stop \in StopState /\ process \in {"up", "race"}

(* Only a web-socket is answered and unregistered.                         *)
WsOnly == \A c \in Client : conn[c] \in {"answer", "unregister"} => c \in Ws

BeingAdded(c) == handlerSubs = At("add", c)

(* A web-socket that is gone without a message was unregistered, and is    *)
(* not about to be added.                                                  *)
Left == \A c \in Ws : conn[c] = "gone" /\ messages[c] = 0 => c \notin known /\ ~BeingAdded(c)

(* The service or the scanner has c in hand.                               *)
InUse(c) ==
  \/ \E d \in BOOLEAN : registering[c][d] > 0
  \/ c \in watched
  \/ report = c
  \/ events = At("send", c)
  \/ serviceSubs.c = c /\ serviceSubs.at \in {"put", "putBad", "error"}

(* They have it only if it is in the map, or has left it, or is on its way *)
(* there from an http handler.                                             *)
Present(c) == \/ c \in known
              \/ c \in Ws /\ conn[c] = "gone"
              \/ c \in Http /\ BeingAdded(c)

UsedIsPresent ==
  \A c \in Client :
    /\ InUse(c) => Present(c)
    /\ c \in Http /\ conn[c] = "read" => Present(c)

IInv == Types /\ WsOnly /\ Left /\ UsedIsPresent

-----------------------------------------------------------------------------

(* Nobody is connected, and nothing is on its way.                         *)
LEMMA InitInv == Init => IInv
  BY NotificationAssumption
  DEF Init, IInv, Types, WsOnly, Left, UsedIsPresent, InUse, Present, BeingAdded,
      At, Select, Off, Dead, NoRequest, ConnState, StopState, Client

(* Every step of a handler, of the service and of a shutdown keeps types.  *)
LEMMA TypesStep == IInv /\ [Next]_vars => Types'
<1> SUFFICES ASSUME IInv, [Next]_vars PROVE Types'
  OBVIOUS
<1> USE NotificationAssumption DEF IInv, Types, ConnState, StopState, At, Select, Off, Dead, Client,
           connVars, requestVars, scannerVars, shutVars
<1>1. ASSUME NEW c \in Client, Connect(c) PROVE Types'
  BY <1>1 DEF Connect
<1>2. ASSUME NEW c \in Client, RegisterConn(c) PROVE Types'
  BY <1>2 DEF RegisterConn
<1>3. ASSUME NEW c \in Client, HttpRequest(c) PROVE Types'
  <2>1. registering' \in [Client -> [BOOLEAN -> Nat]]
    BY <1>3 DEF HttpRequest, Subscribe
  <2>2. /\ conn' \in [Client -> ConnState]
        /\ stop' \in StopState /\ process' \in {"up", "race"}
    BY <1>3 DEF HttpRequest
  <2> QED BY <1>3, <2>1, <2>2 DEF HttpRequest
<1>4. ASSUME NEW c \in Client, BadMessage(c) PROVE Types'
  BY <1>4 DEF BadMessage, Reads
<1>5. ASSUME NEW c \in Client, RefusedMessage(c) PROVE Types'
  BY <1>5 DEF RefusedMessage, Reads, SeesItself
<1>6. ASSUME NEW c \in Client, RegisterMessage(c) PROVE Types'
  BY <1>6 DEF RegisterMessage, Reads, SeesItself, Subscribe
<1>7. ASSUME NEW c \in Client, UnregisterMessage(c) PROVE Types'
  BY <1>7 DEF UnregisterMessage, Reads, SeesItself, UnSubscribe
<1>8. ASSUME NEW c \in Client, Answer(c) PROVE Types'
  BY <1>8 DEF Answer
<1>9. ASSUME NEW c \in Client, ReadError(c) PROVE Types'
  BY <1>9 DEF ReadError
<1>10. ASSUME NEW c \in Client, DeleteSubscriber(c) PROVE Types'
  BY <1>10 DEF DeleteSubscriber, Without
<1>11. ASSUME NEW c \in Client, ScannerReports(c) PROVE Types'
  BY <1>11 DEF ScannerReports
<1>12. CASE AddSubscriber
  BY <1>12 DEF AddSubscriber
<1>13. CASE UnsubscribeDeleted
  BY <1>13 DEF UnsubscribeDeleted, UnSubscribe
<1>14. CASE Register
  BY <1>14 DEF Register
<1>15. CASE Unregister
  BY <1>15 DEF Unregister
<1>16. ASSUME NEW c \in Client, NEW d \in BOOLEAN, TakeRegistration(c, d) PROVE Types'
  BY <1>16 DEF TakeRegistration
<1>17. ASSUME NEW c \in Client, TakeUnregistration(c) PROVE Types'
  BY <1>17 DEF TakeUnregistration
<1>18. CASE TakeReport
  BY <1>18 DEF TakeReport
<1>19. CASE NotifyEvent
  BY <1>19 DEF NotifyEvent, Notifies
<1>20. CASE NotifyError
  BY <1>20 DEF NotifyError, Notifies
<1>21. CASE Shutdown
  BY <1>21 DEF Shutdown
<1>22. CASE Quit
  BY <1>22 DEF Quit, QuitHandlerSubs, QuitNotifier, QuitEvents, QuitServiceSubs
<1>23. CASE UNCHANGED vars
  BY <1>23 DEF vars
<1> QED
  BY <1>1, <1>2, <1>3, <1>4, <1>5, <1>6, <1>7, <1>8, <1>9, <1>10, <1>11, <1>12,
     <1>13, <1>14, <1>15, <1>16, <1>17, <1>18, <1>19, <1>20, <1>21, <1>22, <1>23
     DEF Next, Message, HandlerSubs, ServiceSubs, TakeRequest, Notify

(* Only ServeWS goes on to answer, or to unregister; ServeHTTP returns.    *)
LEMMA WsOnlyStep == IInv /\ [Next]_vars => WsOnly'
<1> SUFFICES ASSUME IInv, [Next]_vars PROVE WsOnly'
  OBVIOUS
<1> USE NotificationAssumption DEF IInv, Types, WsOnly, At, Select, Off, Dead, Client,
           connVars, requestVars, scannerVars, shutVars
<1>1. ASSUME NEW c \in Client, Connect(c) PROVE WsOnly'
  BY <1>1 DEF Connect
<1>2. ASSUME NEW c \in Client, RegisterConn(c) PROVE WsOnly'
  BY <1>2 DEF RegisterConn
<1>3. ASSUME NEW c \in Client, HttpRequest(c) PROVE WsOnly'
  BY <1>3 DEF HttpRequest, Subscribe
<1>4. ASSUME NEW c \in Client, BadMessage(c) PROVE WsOnly'
  BY <1>4 DEF BadMessage, Reads
<1>5. ASSUME NEW c \in Client, RefusedMessage(c) PROVE WsOnly'
  BY <1>5 DEF RefusedMessage, Reads, SeesItself
<1>6. ASSUME NEW c \in Client, RegisterMessage(c) PROVE WsOnly'
  BY <1>6 DEF RegisterMessage, Reads, SeesItself, Subscribe
<1>7. ASSUME NEW c \in Client, UnregisterMessage(c) PROVE WsOnly'
  BY <1>7 DEF UnregisterMessage, Reads, SeesItself, UnSubscribe
<1>8. ASSUME NEW c \in Client, Answer(c) PROVE WsOnly'
  BY <1>8 DEF Answer
<1>9. ASSUME NEW c \in Client, ReadError(c) PROVE WsOnly'
  BY <1>9 DEF ReadError
<1>10. ASSUME NEW c \in Client, DeleteSubscriber(c) PROVE WsOnly'
  BY <1>10 DEF DeleteSubscriber, Without
<1>11. ASSUME NEW c \in Client, ScannerReports(c) PROVE WsOnly'
  BY <1>11 DEF ScannerReports
<1>12. CASE AddSubscriber
  BY <1>12 DEF AddSubscriber
<1>13. CASE UnsubscribeDeleted
  BY <1>13 DEF UnsubscribeDeleted, UnSubscribe
<1>14. CASE Register
  BY <1>14 DEF Register
<1>15. CASE Unregister
  BY <1>15 DEF Unregister
<1>16. ASSUME NEW c \in Client, NEW d \in BOOLEAN, TakeRegistration(c, d) PROVE WsOnly'
  BY <1>16 DEF TakeRegistration
<1>17. ASSUME NEW c \in Client, TakeUnregistration(c) PROVE WsOnly'
  BY <1>17 DEF TakeUnregistration
<1>18. CASE TakeReport
  BY <1>18 DEF TakeReport
<1>19. CASE NotifyEvent
  BY <1>19 DEF NotifyEvent, Notifies
<1>20. CASE NotifyError
  BY <1>20 DEF NotifyError, Notifies
<1>21. CASE Shutdown
  BY <1>21 DEF Shutdown
<1>22. CASE Quit
  BY <1>22 DEF Quit, QuitHandlerSubs, QuitNotifier, QuitEvents, QuitServiceSubs
<1>23. CASE UNCHANGED vars
  BY <1>23 DEF vars
<1> QED
  BY <1>1, <1>2, <1>3, <1>4, <1>5, <1>6, <1>7, <1>8, <1>9, <1>10, <1>11, <1>12,
     <1>13, <1>14, <1>15, <1>16, <1>17, <1>18, <1>19, <1>20, <1>21, <1>22, <1>23
     DEF Next, Message, HandlerSubs, ServiceSubs, TakeRequest, Notify

(* A web-socket is added to the map of the handler when it has registered, *)
(* before it reads; its goroutine ends without a message only by           *)
(* unregistering, which waits for handlerSubs to have added it.            *)
LEMMA LeftStep == IInv /\ [Next]_vars => Left'
<1> SUFFICES ASSUME IInv, [Next]_vars PROVE Left'
  OBVIOUS
<1> USE NotificationAssumption DEF IInv, Types, WsOnly, Left, BeingAdded,
           At, Select, Off, Dead, Client,
           connVars, requestVars, scannerVars, shutVars
<1>1. ASSUME NEW c \in Client, Connect(c) PROVE Left'
  BY <1>1 DEF Connect
<1>2. ASSUME NEW c \in Client, RegisterConn(c) PROVE Left'
  BY <1>2 DEF RegisterConn
<1>3. ASSUME NEW c \in Client, HttpRequest(c) PROVE Left'
  BY <1>3 DEF HttpRequest, Subscribe
<1>4. ASSUME NEW c \in Client, BadMessage(c) PROVE Left'
  BY <1>4 DEF BadMessage, Reads
<1>5. ASSUME NEW c \in Client, RefusedMessage(c) PROVE Left'
  BY <1>5 DEF RefusedMessage, Reads, SeesItself
<1>6. ASSUME NEW c \in Client, RegisterMessage(c) PROVE Left'
  BY <1>6 DEF RegisterMessage, Reads, SeesItself, Subscribe
<1>7. ASSUME NEW c \in Client, UnregisterMessage(c) PROVE Left'
  BY <1>7 DEF UnregisterMessage, Reads, SeesItself, UnSubscribe
<1>8. ASSUME NEW c \in Client, Answer(c) PROVE Left'
  BY <1>8 DEF Answer
<1>9. ASSUME NEW c \in Client, ReadError(c) PROVE Left'
  BY <1>9 DEF ReadError
<1>10. ASSUME NEW c \in Client, DeleteSubscriber(c) PROVE Left'
  BY <1>10 DEF DeleteSubscriber, Without
<1>11. ASSUME NEW c \in Client, ScannerReports(c) PROVE Left'
  BY <1>11 DEF ScannerReports
<1>12. CASE AddSubscriber
  BY <1>12 DEF AddSubscriber
<1>13. CASE UnsubscribeDeleted
  BY <1>13 DEF UnsubscribeDeleted, UnSubscribe
<1>14. CASE Register
  BY <1>14 DEF Register
<1>15. CASE Unregister
  BY <1>15 DEF Unregister
<1>16. ASSUME NEW c \in Client, NEW d \in BOOLEAN, TakeRegistration(c, d) PROVE Left'
  BY <1>16 DEF TakeRegistration
<1>17. ASSUME NEW c \in Client, TakeUnregistration(c) PROVE Left'
  BY <1>17 DEF TakeUnregistration
<1>18. CASE TakeReport
  BY <1>18 DEF TakeReport
<1>19. CASE NotifyEvent
  BY <1>19 DEF NotifyEvent, Notifies
<1>20. CASE NotifyError
  BY <1>20 DEF NotifyError, Notifies
<1>21. CASE Shutdown
  BY <1>21 DEF Shutdown
<1>22. CASE Quit
  BY <1>22 DEF Quit, QuitHandlerSubs, QuitNotifier, QuitEvents, QuitServiceSubs
<1>23. CASE UNCHANGED vars
  BY <1>23 DEF vars
<1> QED
  BY <1>1, <1>2, <1>3, <1>4, <1>5, <1>6, <1>7, <1>8, <1>9, <1>10, <1>11, <1>12,
     <1>13, <1>14, <1>15, <1>16, <1>17, <1>18, <1>19, <1>20, <1>21, <1>22, <1>23
     DEF Next, Message, HandlerSubs, ServiceSubs, TakeRequest, Notify

(* Subscribe is called for a web-socket that was seen in the map, and for  *)
(* an http client that handlerSubs has received; handlerSubs deletes only  *)
(* the subscriber of a goroutine that is about to return.                  *)
LEMMA UsedStep == IInv /\ [Next]_vars => UsedIsPresent'
<1> SUFFICES ASSUME IInv, [Next]_vars PROVE UsedIsPresent'
  OBVIOUS
<1> USE NotificationAssumption DEF IInv, Types, WsOnly, UsedIsPresent, InUse, Present, BeingAdded,
           At, Select, Off, Dead, Client,
           connVars, requestVars, scannerVars, shutVars
<1>1. ASSUME NEW c \in Client, Connect(c) PROVE UsedIsPresent'
  BY <1>1 DEF Connect
<1>2. ASSUME NEW c \in Client, RegisterConn(c) PROVE UsedIsPresent'
  BY <1>2 DEF RegisterConn
<1>3. ASSUME NEW c \in Client, HttpRequest(c) PROVE UsedIsPresent'
  BY <1>3 DEF HttpRequest, Subscribe
<1>4. ASSUME NEW c \in Client, BadMessage(c) PROVE UsedIsPresent'
  BY <1>4 DEF BadMessage, Reads
<1>5. ASSUME NEW c \in Client, RefusedMessage(c) PROVE UsedIsPresent'
  BY <1>5 DEF RefusedMessage, Reads, SeesItself
<1>6. ASSUME NEW c \in Client, RegisterMessage(c) PROVE UsedIsPresent'
  BY <1>6 DEF RegisterMessage, Reads, SeesItself, Subscribe
<1>7. ASSUME NEW c \in Client, UnregisterMessage(c) PROVE UsedIsPresent'
  BY <1>7 DEF UnregisterMessage, Reads, SeesItself, UnSubscribe
<1>8. ASSUME NEW c \in Client, Answer(c) PROVE UsedIsPresent'
  BY <1>8 DEF Answer
<1>9. ASSUME NEW c \in Client, ReadError(c) PROVE UsedIsPresent'
  BY <1>9 DEF ReadError
<1>10. ASSUME NEW c \in Client, DeleteSubscriber(c) PROVE UsedIsPresent'
  BY <1>10 DEF DeleteSubscriber, Without
<1>11. ASSUME NEW c \in Client, ScannerReports(c) PROVE UsedIsPresent'
  BY <1>11 DEF ScannerReports
<1>12. CASE AddSubscriber
  BY <1>12 DEF AddSubscriber
<1>13. CASE UnsubscribeDeleted
  BY <1>13 DEF UnsubscribeDeleted, UnSubscribe
<1>14. CASE Register
  BY <1>14 DEF Register
<1>15. CASE Unregister
  BY <1>15 DEF Unregister
<1>16. ASSUME NEW c \in Client, NEW d \in BOOLEAN, TakeRegistration(c, d) PROVE UsedIsPresent'
  BY <1>16 DEF TakeRegistration
<1>17. ASSUME NEW c \in Client, TakeUnregistration(c) PROVE UsedIsPresent'
  BY <1>17 DEF TakeUnregistration
<1>18. CASE TakeReport
  BY <1>18 DEF TakeReport
<1>19. CASE NotifyEvent
  BY <1>19 DEF NotifyEvent, Notifies
<1>20. CASE NotifyError
  BY <1>20 DEF NotifyError, Notifies
<1>21. CASE Shutdown
  BY <1>21 DEF Shutdown
<1>22. CASE Quit
  BY <1>22 DEF Quit, QuitHandlerSubs, QuitNotifier, QuitEvents, QuitServiceSubs
<1>23. CASE UNCHANGED vars
  BY <1>23 DEF vars
<1> QED
  BY <1>1, <1>2, <1>3, <1>4, <1>5, <1>6, <1>7, <1>8, <1>9, <1>10, <1>11, <1>12,
     <1>13, <1>14, <1>15, <1>16, <1>17, <1>18, <1>19, <1>20, <1>21, <1>22, <1>23
     DEF Next, Message, HandlerSubs, ServiceSubs, TakeRequest, Notify

(* The four parts together.                                                *)
LEMMA StepInv == IInv /\ [Next]_vars => IInv'
BY TypesStep, WsOnlyStep, LeftStep, UsedStep DEF IInv

(* Whoever the service or the scanner has in hand is in the handler's map, *)
(* has left it, or is an http client that handlerSubs is adding: in every  *)
(* reachable state, for any clients, messages and reports.                 *)
THEOREM Invariant == Spec => []IInv
<1>1. Init => IInv
  BY InitInv
<1>2. IInv /\ [Next]_vars => IInv'
  BY StepInv
<1> QED
  BY <1>1, <1>2, PTL DEF Spec

(* The types, and that a connection lost before it was used is forgotten   *)
(* by handleSubscribers of the handler.                                    *)
THEOREM Typing == Spec => []TypeOK
<1>1. IInv => TypeOK
  BY DEF IInv, Types, Left, TypeOK
<1> QED
  BY <1>1, Invariant, PTL

-----------------------------------------------------------------------------

(* The notifier dies only when it looks up a subscriber that is not in the *)
(* map, and the invariant says who that may be.                            *)
LEMMA DeathStep ==
  IInv /\ [Next]_vars =>
    (notifier' = Dead /\ notifier # Dead =>
       LET c == IF events' # events THEN events.c ELSE serviceSubs.c IN
       \/ c \in Ws /\ conn[c] = "gone"
       \/ c \in Http /\ handlerSubs = At("add", c))
<1> DEFINE c == IF events' # events THEN events.c ELSE serviceSubs.c
           Absent(x) == \/ x \in Ws /\ conn[x] = "gone"
                        \/ x \in Http /\ handlerSubs = At("add", x)
<1> SUFFICES ASSUME IInv, [Next]_vars, notifier' = Dead, notifier # Dead
             PROVE  Absent(c)
  OBVIOUS
<1>1. ASSUME NEW x \in Client, InUse(x), x \notin known PROVE Absent(x)
  BY <1>1 DEF IInv, UsedIsPresent, Present, BeingAdded
<1>2. CASE NotifyEvent
  <2>1. events.c \in Client /\ events = At("send", events.c)
    BY <1>2 DEF NotifyEvent, IInv, Types, At, Select, Off
  <2>2. events.c \notin known /\ c = events.c
    BY <1>2, <2>1 DEF NotifyEvent, Notifies, At, Select, Dead
  <2> QED
    BY <1>1, <2>1, <2>2 DEF InUse
<1>3. CASE NotifyError
  <2>1. serviceSubs.c \in Client /\ serviceSubs.at = "error"
    BY <1>3 DEF NotifyError, IInv, Types, At, Select, Off
  <2>2. serviceSubs.c \notin known /\ c = serviceSubs.c
    BY <1>3 DEF NotifyError, Notifies, At, Select, Dead
  <2> QED
    BY <1>1, <2>1, <2>2 DEF InUse
<1>4. NotifyEvent \/ NotifyError
  <2>1. notifier' # notifier /\ notifier' # Off
    BY DEF At, Select, Off, Dead
  <2> QED
    BY <2>1
    DEF Next, vars, Message, HandlerSubs, ServiceSubs, TakeRequest, Notify, Connect,
        RegisterConn, HttpRequest, BadMessage, RefusedMessage, RegisterMessage,
        UnregisterMessage, Reads, Answer, ReadError, DeleteSubscriber, ScannerReports,
        AddSubscriber, UnsubscribeDeleted, Register, Unregister, TakeRegistration,
        TakeUnregistration, TakeReport, Shutdown, Quit, QuitHandlerSubs, QuitNotifier,
        QuitEvents, QuitServiceSubs
<1> QED
  BY <1>2, <1>3, <1>4

(* handleOnChainNotifications survives every report for a client that is   *)
(* still connected, in any order of the goroutines.                        *)
THEOREM DiesOnlyForAbsentHolds == Spec => DiesOnlyForAbsent
<1>1. IInv /\ [Next]_vars =>
        [notifier' = Dead /\ notifier # Dead =>
           LET c == IF events' # events THEN events.c ELSE serviceSubs.c IN
           \/ c \in Ws /\ conn[c] = "gone"
           \/ c \in Http /\ handlerSubs = At("add", c)]_vars
  BY DeathStep DEF vars
<1> QED
  BY <1>1, Invariant, PTL DEF Spec, DiesOnlyForAbsent

=============================================================================
