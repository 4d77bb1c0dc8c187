--------------------------- MODULE Lifecycle_proofs ---------------------------
(***************************************************************************)
(* Proofs for what the programs acquire and release, for every set of      *)
(* connections: whichever call fails, a program that returns has given up  *)
(* what it acquired, and gives something up twice only where it has lost a *)
(* connection and leaves.                                                  *)
(***************************************************************************)
EXTENDS Lifecycle, TLAPS

-----------------------------------------------------------------------------
(* What the calls make of what a program holds.                            *)

Holding == [wsa : 0 .. 1, info : {"null", "list", "freed"},
            open : SUBSET Socket, faults : SUBSET Fault]

\* A socket that is open, or an address list that was not freed, is used without
\* a fault.
LEMMA UseIs ==
  ASSUME NEW h \in Holding
  PROVE  /\ h.info = "list" => UseInfo(h) = h
         /\ \A s : h.wsa > 0 /\ s \in h.open => Use(h, s) = h
BY DEF Use, UseInfo

\* A faulty call changes nothing but the faults.
LEMMA FaultyIs ==
  ASSUME NEW h \in Holding, NEW f \in Fault
  PROVE  /\ Faulty(h, f) \in Holding
         /\ Faulty(h, f).wsa = h.wsa /\ Faulty(h, f).info = h.info
         /\ Faulty(h, f).open = h.open /\ Faulty(h, f).faults = h.faults \cup {f}
BY DEF Faulty, Holding

\* Freeing the address list.
LEMMA FreeAddrInfoIs ==
  ASSUME NEW h \in Holding
  PROVE  LET r == FreeAddrInfo(h) IN
         r \in Holding /\ r.info # "list" /\ r.wsa = h.wsa /\ r.open = h.open
<1>1. CASE h.info = "null"
  BY <1>1 DEF FreeAddrInfo
<1>2. CASE h.info # "null"
  <2>1. PICK u \in Holding : u = UseInfo(h) /\ u.wsa = h.wsa /\ u.open = h.open
    BY FaultyIs DEF UseInfo, Fault
  <2>2. FreeAddrInfo(h) = [u EXCEPT !.info = "freed"]
    BY <1>2, <2>1 DEF FreeAddrInfo
  <2> QED
    BY <2>1, <2>2 DEF Holding
<1> QED
  BY <1>1, <1>2

\* Closing a socket.
LEMMA CloseSocketIs ==
  ASSUME NEW h \in Holding, NEW s \in Socket
  PROVE  LET r == CloseSocket(h, s) IN
         /\ r \in Holding /\ r.info = h.info /\ r.wsa = h.wsa
         /\ r.open = IF h.wsa > 0 THEN h.open \ {s} ELSE h.open
<1>1. CASE h.wsa > 0 /\ s \in h.open
  <2>1. CloseSocket(h, s) = [h EXCEPT !.open = @ \ {s}]
    BY <1>1 DEF CloseSocket
  <2> QED
    BY <1>1, <2>1 DEF Holding
<1>2. CASE ~(h.wsa > 0 /\ s \in h.open)
  <2>1. CloseSocket(h, s) = Faulty(h, "close")
    BY <1>2 DEF CloseSocket
  <2>2. h.wsa > 0 => h.open = h.open \ {s}
    BY <1>2
  <2> QED
    BY <2>1, <2>2, FaultyIs DEF Fault
<1> QED
  BY <1>1, <1>2

\* Cleaning Winsock up.
LEMMA WSACleanupIs ==
  ASSUME NEW h \in Holding
  PROVE  LET r == WSACleanup(h) IN
         /\ r \in Holding /\ r.info = h.info
         /\ r.wsa = IF h.wsa = 0 THEN 0 ELSE h.wsa - 1
         /\ r.open = IF h.wsa = 1 THEN {} ELSE h.open
<1>1. CASE h.wsa = 0
  BY <1>1 DEF WSACleanup
<1>2. CASE h.wsa # 0
  <2> DEFINE open == IF h.wsa = 1 THEN {} ELSE h.open
  <2>1. WSACleanup(h) = [h EXCEPT !.wsa = @ - 1, !.open = open]
    BY <1>2 DEF WSACleanup
  <2>2. open \in SUBSET Socket /\ h.wsa - 1 \in 0 .. 1
    BY <1>2 DEF Holding
  <2> HIDE DEF open
  <2>3. /\ WSACleanup(h) \in Holding /\ WSACleanup(h).info = h.info
        /\ WSACleanup(h).wsa = h.wsa - 1 /\ WSACleanup(h).open = open
    BY <2>1, <2>2 DEF Holding
  <2> QED
    BY <1>2, <2>3 DEF open
<1> QED
  BY <1>1, <1>2

\* What is left behind the first CleanSocket, and behind every further one.
Released(h) == h \in Holding /\ h.wsa = 0 /\ h.open = {} /\ h.info # "list"

\* The first CleanSocket releases everything, whichever socket it closes, and
\* further ones acquire nothing.
LEMMA CleanSocketIs ==
  ASSUME NEW h \in Holding, NEW s \in Socket, h.wsa = 1 \/ h.open = {}
  PROVE  Released(CleanSocket(h, s))
<1>1. PICK f \in Holding : f = FreeAddrInfo(h)
  BY FreeAddrInfoIs
<1>2. f.info # "list" /\ f.wsa = h.wsa /\ f.open = h.open
  BY <1>1, FreeAddrInfoIs
<1>3. PICK g \in Holding : g = CloseSocket(f, s)
  BY CloseSocketIs
<1>4. g.info # "list" /\ g.wsa = h.wsa /\ (h.wsa # 1 => g.open = {})
  <2>1. /\ g.info = f.info /\ g.wsa = f.wsa
        /\ g.open = IF f.wsa > 0 THEN f.open \ {s} ELSE f.open
    BY <1>3, CloseSocketIs
  <2> QED
    BY <1>2, <2>1
<1>5. CleanSocket(h, s) = WSACleanup(g)
  BY <1>1, <1>3 DEF CleanSocket
<1>6. h.wsa = 0 \/ h.wsa = 1
  BY DEF Holding
<1> QED
  BY <1>4, <1>5, <1>6, WSACleanupIs DEF Released

-----------------------------------------------------------------------------
(* The invariant: what a program at stage s holds.                         *)

Starting == {"Bind", "Listen", "ConnectSocket", "GetClientName"}

Fits(s, h) ==
  /\ h \in Holding /\ (s \notin Returned => h.faults = {})
  /\ s = "InitializeWSA" => h.wsa = 0 /\ h.open = {} /\ h.info = "null"
  /\ s = "InitializeAddrInfo" => h.wsa = 1 /\ h.open = {} /\ h.info = "null"
  /\ s = "CreateSocket" => h.wsa = 1 /\ h.open = {} /\ h.info = "list"
  /\ s \in Starting \cup {"loop"} => h.wsa = 1 /\ Main \in h.open /\ h.info = "list"
  /\ s = "returned" => h.wsa = 0 /\ h.open = {} /\ h.info # "list"

LifeInv ==
  /\ at \in [Program -> Stage] /\ connected \in BOOLEAN
  /\ holds \in [Program -> Holding]
  /\ \A p \in Program : Fits(at[p], holds[p])

\* A program that goes where what it holds fits keeps the invariant.
LEMMA GoesKeeps ==
  ASSUME LifeInv, NEW p \in Program, NEW s \in Stage, NEW h, Fits(s, h), Goes(p, s, h)
  PROVE  LifeInv'
<1>1. h \in Holding
  BY DEF Fits
<1>2. /\ at' = [at EXCEPT ![p] = s] /\ holds' = [holds EXCEPT ![p] = h]
      /\ connected' = connected
  BY DEF Goes
<1>3. /\ at \in [Program -> Stage] /\ connected \in BOOLEAN
      /\ holds \in [Program -> Holding]
  BY DEF LifeInv
<1>4. /\ at' \in [Program -> Stage] /\ holds' \in [Program -> Holding]
      /\ connected' \in BOOLEAN
  BY <1>1, <1>2, <1>3
<1>5. /\ at'[p] = s /\ holds'[p] = h
      /\ \A q \in Program \ {p} : at'[q] = at[q] /\ holds'[q] = holds[q]
  BY <1>2, <1>3
<1>6. ASSUME NEW q \in Program
      PROVE  Fits(at'[q], holds'[q])
  <2>1. CASE q = p
    BY <1>5, <2>1
  <2>2. CASE q # p
    <3>1. Fits(at[q], holds[q])
      BY DEF LifeInv
    <3> QED
      BY <1>5, <2>2, <3>1
  <2> QED
    BY <2>1, <2>2
<1> QED
  BY <1>4, <1>6 DEF LifeInv

\* A program that has released everything may return.
LEMMA ReleasedReturns ==
  ASSUME LifeInv, NEW p \in Program, NEW h, Released(h), Goes(p, "returned", h)
  PROVE  LifeInv'
<1>1. Fits("returned", h)
  BY DEF Released, Fits, Starting, Returned
<1>2. "returned" \in Stage
  BY DEF Stage
<1> QED
  BY <1>1, <1>2, GoesKeeps

\* Any number of CleanSockets on the way out release everything.
LEMMA CleansReturn ==
  ASSUME NEW h \in Holding, h.wsa = 1
  PROVE  \A s, t, u \in Socket :
           /\ Released(CleanSocket(h, s))
           /\ Released(CleanSocket(CleanSocket(h, s), t))
           /\ Released(CleanSocket(CleanSocket(CleanSocket(h, s), t), u))
<1> TAKE s, t, u \in Socket
<1>1. ASSUME NEW g, Released(g), NEW v \in Socket
      PROVE  Released(CleanSocket(g, v))
  <2>1. g \in Holding /\ g.open = {}
    BY <1>1 DEF Released
  <2> QED
    BY <2>1, CleanSocketIs
<1>2. Released(CleanSocket(h, s))
  BY CleanSocketIs
<1>3. Released(CleanSocket(CleanSocket(h, s), t))
  BY <1>1, <1>2
<1> QED
  BY <1>1, <1>2, <1>3

\* A failure before there is a socket releases the address list and Winsock.
LEMMA EarlyFailureReleases ==
  ASSUME NEW h \in Holding, h.wsa = 1
  PROVE  Released(WSACleanup(FreeAddrInfo(h)))
<1>1. PICK f \in Holding : f = FreeAddrInfo(h)
  BY FreeAddrInfoIs
<1>2. f.info # "list" /\ f.wsa = 1
  BY <1>1, FreeAddrInfoIs
<1>3. Released(WSACleanup(f))
  BY <1>2, WSACleanupIs DEF Released
<1> QED
  BY <1>1, <1>3

\* Acquiring Winsock, the address list and a socket.
LEMMA Acquires ==
  ASSUME NEW h \in Holding, NEW s \in Socket
  PROVE  LET w == [h EXCEPT !.wsa = @ + 1]
             i == [h EXCEPT !.info = "list"]
             o == [h EXCEPT !.open = @ \cup {s}]
         IN /\ h.wsa = 0 => w \in Holding /\ w.wsa = 1
            /\ w.info = h.info /\ w.open = h.open /\ w.faults = h.faults
            /\ i \in Holding /\ i.wsa = h.wsa /\ i.info = "list" /\ i.open = h.open
            /\ i.faults = h.faults
            /\ o \in Holding /\ o.wsa = h.wsa /\ o.info = h.info /\ o.open = h.open \cup {s}
            /\ o.faults = h.faults
BY DEF Holding

\* Start-up, as far as it is the same in both programs.
LEMMA StartUpKeeps ==
  ASSUME LifeInv, NEW p \in Program,
         InitializeWSA(p) \/ InitializeAddrInfo(p) \/ CreateSocket(p)
  PROVE  LifeInv'
<1>1. PICK h \in Holding : h = holds[p]
  BY DEF LifeInv
<1>2. Fits(at[p], h) /\ h.faults = {} /\ Main \in Socket
  <2>1. at[p] \notin Returned
    BY DEF InitializeWSA, InitializeAddrInfo, CreateSocket, Returned
  <2> QED
    BY <1>1, <2>1 DEF LifeInv, Fits, Socket
<1>3. CASE InitializeWSA(p)
  <2> DEFINE w == [h EXCEPT !.wsa = @ + 1]
  <2>1. h.wsa = 0 /\ h.open = {} /\ h.info = "null"
    BY <1>2, <1>3 DEF InitializeWSA, Fits
  <2>2. w \in Holding /\ w.wsa = 1 /\ w.info = h.info /\ w.open = {} /\ w.faults = h.faults
    <3>1. w \in Holding /\ w.wsa = 1 /\ w.info = h.info /\ w.open = h.open
          /\ w.faults = h.faults
      BY <1>2, <2>1, Acquires
    <3> HIDE DEF w
    <3> QED
      BY <2>1, <3>1
  <2>3. \/ Goes(p, "InitializeAddrInfo", w)
        \/ Goes(p, "returned", h)
    BY <1>1, <1>3 DEF InitializeWSA
  <2> HIDE DEF w
  <2>4. Fits("InitializeAddrInfo", w)
    BY <1>2, <2>1, <2>2 DEF Fits, Starting
  <2>5. Released(h)
    BY <1>2, <2>1 DEF Released
  <2> QED
    BY <2>3, <2>4, <2>5, GoesKeeps, ReleasedReturns DEF Stage
<1>4. CASE InitializeAddrInfo(p)
  <2> DEFINE i == [h EXCEPT !.info = "list"]
  <2>1. h.wsa = 1 /\ h.open = {}
    BY <1>2, <1>4 DEF InitializeAddrInfo, Fits
  <2>2. i \in Holding /\ i.wsa = 1 /\ i.info = "list" /\ i.open = {} /\ i.faults = h.faults
    BY <1>2, <2>1, Acquires
  <2>3. \/ Goes(p, "CreateSocket", i)
        \/ Goes(p, "returned", WSACleanup(FreeAddrInfo(h)))
    BY <1>1, <1>4 DEF InitializeAddrInfo
  <2> HIDE DEF i
  <2>4. Fits("CreateSocket", i)
    BY <1>2, <2>2 DEF Fits, Starting
  <2>5. Released(WSACleanup(FreeAddrInfo(h)))
    BY <1>2, <2>1, EarlyFailureReleases
  <2> QED
    BY <2>3, <2>4, <2>5, GoesKeeps, ReleasedReturns DEF Stage
<1>5. CASE CreateSocket(p)
  <2> DEFINE o == [h EXCEPT !.open = @ \cup {Main}]
             s == IF p = "server" THEN "Bind" ELSE "ConnectSocket"
  <2>1. h.wsa = 1 /\ h.open = {} /\ h.info = "list"
    BY <1>2, <1>5 DEF CreateSocket, Fits
  <2>2. UseInfo(h) = h
    BY <2>1, UseIs
  <2>3. o \in Holding /\ o.wsa = 1 /\ o.info = "list" /\ o.open = {Main}
        /\ o.faults = h.faults
    BY <1>2, <2>1, Acquires
  <2>4. \/ Goes(p, s, o)
        \/ Goes(p, "returned", WSACleanup(FreeAddrInfo(h)))
    BY <1>1, <1>5, <2>2 DEF CreateSocket
  <2>5. s \in Starting /\ s \in Stage
    BY DEF Starting, Stage
  <2> HIDE DEF o, s
  <2>6. Fits(s, o)
    BY <1>2, <2>3, <2>5 DEF Fits, Starting
  <2>7. Released(WSACleanup(FreeAddrInfo(h)))
    BY <1>2, <2>1, EarlyFailureReleases
  <2> QED
    BY <2>4, <2>5, <2>6, <2>7, GoesKeeps, ReleasedReturns
<1> QED
  BY <1>3, <1>4, <1>5

\* The server.
LEMMA ServerKeepsLife ==
  ASSUME LifeInv, ServerStep
  PROVE  LifeInv'
<1>0. "server" \in Program /\ Main \in Socket /\ Connections \subseteq Socket
      /\ {"loop", "Listen", "selectFailed", "returned"} \subseteq Stage
  BY DEF Program, Socket, Stage
<1>1. PICK h \in Holding : h = holds["server"]
  BY <1>0 DEF LifeInv
<1>2. Fits(at["server"], h)
  BY <1>0, <1>1 DEF LifeInv
<1>3. at["server"] \in {"Bind", "Listen", "loop"}
  BY DEF ServerStep, Bind, Listen, Serve, SelectFails, Accept, AcceptFails, ReceiveFails,
     SendFails
<1>4. h.wsa = 1 /\ Main \in h.open /\ h.info = "list" /\ h.faults = {}
  BY <1>2, <1>3 DEF Fits, Starting, Returned
<1>5. /\ UseInfo(h) = h /\ Use(h, Main) = h
      /\ \A c \in Connected : c \in Socket /\ Use(h, c) = h
  <2>1. h.open \subseteq Socket
    BY DEF Holding
  <2> QED
    BY <1>1, <1>4, <2>1, UseIs DEF Connected
<1>6. \A s \in Starting \cup {"loop"} : Fits(s, h)
  BY <1>2, <1>4 DEF Fits, Starting
<1>7. \A s, t, u \in Socket :
        /\ Released(CleanSocket(h, s))
        /\ Released(CleanSocket(CleanSocket(h, s), t))
        /\ Released(CleanSocket(CleanSocket(CleanSocket(h, s), t), u))
  BY <1>2, <1>4, CleansReturn
\* Going on with what it holds, or returning with nothing.
<1>8. ASSUME NEW s \in {"Listen", "loop"}, Goes("server", s, h)
      PROVE  LifeInv'
  BY <1>0, <1>6, <1>8, GoesKeeps DEF Starting
<1>9. ASSUME NEW g, Released(g), Goes("server", "returned", g)
      PROVE  LifeInv'
  BY <1>0, <1>9, ReleasedReturns
<1>10. CASE Bind
  <2>1. Goes("server", "Listen", h) \/ Goes("server", "returned", CleanSocket(h, Main))
    BY <1>1, <1>5, <1>10 DEF Bind
  <2> QED
    BY <1>0, <1>7, <1>8, <1>9, <2>1
<1>11. CASE Listen
  <2>1. Goes("server", "loop", h) \/ Goes("server", "returned", CleanSocket(h, Main))
    BY <1>1, <1>5, <1>11 DEF Listen
  <2> QED
    BY <1>0, <1>7, <1>8, <1>9, <2>1
<1>12. CASE Serve
  <2>1. Goes("server", "loop", h)
    BY <1>1, <1>5, <1>12 DEF Serve
  <2> QED
    BY <1>8, <2>1
<1>13. CASE SelectFails
  <2>1. Goes("server", "selectFailed", CloseSocket(h, Main))
    BY <1>1, <1>5, <1>13 DEF SelectFails
  <2>2. CloseSocket(h, Main) \in Holding
    BY <1>0, CloseSocketIs
  <2>3. Fits("selectFailed", CloseSocket(h, Main))
    BY <2>2 DEF Fits, Starting, Returned
  <2> QED
    BY <1>0, <2>1, <2>3, GoesKeeps
<1>14. CASE Accept
  <2>1. PICK c \in Connections : Goes("server", "loop", [h EXCEPT !.open = @ \cup {c}])
    BY <1>1, <1>5, <1>14 DEF Accept
  <2> DEFINE o == [h EXCEPT !.open = @ \cup {c}]
  <2>2. o \in Holding /\ o.wsa = 1 /\ o.info = "list" /\ o.open = h.open \cup {c}
        /\ o.faults = h.faults
    BY <1>0, <1>4, Acquires
  <2> HIDE DEF o
  <2>3. Fits("loop", o)
    BY <1>2, <1>4, <2>2 DEF Fits, Starting
  <2> QED
    BY <1>0, <2>1, <2>3, GoesKeeps DEF o
<1>15. CASE AcceptFails
  <2>1. Goes("server", "returned", CleanSocket(h, Main))
    BY <1>1, <1>5, <1>15 DEF AcceptFails
  <2> QED
    BY <1>0, <1>7, <1>9, <2>1
<1>16. CASE ReceiveFails
  <2>1. PICK c \in Connected :
          Goes("server", "returned", CleanSocket(CleanSocket(CleanSocket(h, c), c), Main))
    BY <1>1, <1>5, <1>16 DEF ReceiveFails
  <2> QED
    BY <1>0, <1>5, <1>7, <1>9, <2>1
<1>17. CASE SendFails
  <2>1. PICK c \in Connected :
          Goes("server", "returned", CleanSocket(CleanSocket(h, c), Main))
    BY <1>1, <1>5, <1>17 DEF SendFails
  <2> QED
    BY <1>0, <1>5, <1>7, <1>9, <2>1
<1> QED
  BY <1>10, <1>11, <1>12, <1>13, <1>14, <1>15, <1>16, <1>17 DEF ServerStep

\* The client.
LEMMA ClientKeepsLife ==
  ASSUME LifeInv, ClientStep
  PROVE  LifeInv'
<1>0. "client" \in Program /\ Main \in Socket
      /\ {"loop", "GetClientName", "returned"} \subseteq Stage
  BY DEF Program, Socket, Stage
<1>1. PICK h \in Holding : h = holds["client"]
  BY <1>0 DEF LifeInv
<1>2. Fits(at["client"], h)
  BY <1>0, <1>1 DEF LifeInv
<1>3. at["client"] \in {"ConnectSocket", "GetClientName", "loop"}
  BY DEF ClientStep, ConnectSocket, GetClientName, Talk, WriteResponseFails,
     CheckForResponseFails, ReceiveMessageFails
<1>4. h.wsa = 1 /\ Main \in h.open /\ h.info = "list" /\ h.faults = {}
  BY <1>2, <1>3 DEF Fits, Starting, Returned
<1>5. UseInfo(h) = h /\ Use(h, Main) = h
  BY <1>4, UseIs
<1>6. \A s \in Starting \cup {"loop"} : Fits(s, h)
  BY <1>2, <1>4 DEF Fits, Starting
<1>7. /\ Released(CleanSocket(h, Main))
      /\ Released(CleanSocket(CleanSocket(h, Main), Main))
  BY <1>0, <1>2, <1>4, CleansReturn
<1>8. ASSUME NEW g, Released(g), Goes("client", "returned", g)
      PROVE  LifeInv'
  BY <1>0, <1>8, ReleasedReturns
<1>9. CASE ConnectSocket
  <2>1. /\ at' = [at EXCEPT !["client"] = "GetClientName"]
        /\ holds' = [holds EXCEPT !["client"] = h]
        /\ connected' \in BOOLEAN
    BY <1>1, <1>5, <1>9 DEF ConnectSocket
  <2>2. /\ at \in [Program -> Stage] /\ holds \in [Program -> Holding]
        /\ \A p \in Program : Fits(at[p], holds[p])
    BY DEF LifeInv
  <2>3. /\ at' \in [Program -> Stage] /\ holds' \in [Program -> Holding]
        /\ at'["client"] = "GetClientName" /\ holds'["client"] = h
        /\ \A p \in Program \ {"client"} : at'[p] = at[p] /\ holds'[p] = holds[p]
    BY <1>0, <2>1, <2>2
  <2>4. ASSUME NEW p \in Program
        PROVE  Fits(at'[p], holds'[p])
    <3>1. CASE p = "client"
      <4>1. Fits("GetClientName", h)
        BY <1>6 DEF Starting
      <4> QED
        BY <2>3, <3>1, <4>1
    <3>2. CASE p # "client"
      BY <2>2, <2>3, <3>2
    <3> QED
      BY <3>1, <3>2
  <2> QED
    BY <2>1, <2>3, <2>4 DEF LifeInv
<1>10. CASE GetClientName
  <2>1. \/ connected /\ Goes("client", "loop", h)
        \/ Goes("client", "returned", CleanSocket(CleanSocket(h, Main), Main))
    BY <1>1, <1>5, <1>10 DEF GetClientName
  <2> QED
    BY <1>0, <1>6, <1>7, <1>8, <2>1, GoesKeeps
<1>11. CASE Talk
  <2>1. Goes("client", "loop", h)
    BY <1>1, <1>5, <1>11 DEF Talk
  <2> QED
    BY <1>0, <1>6, <2>1, GoesKeeps
<1>12. CASE WriteResponseFails \/ CheckForResponseFails
  <2>1. Goes("client", "returned", CleanSocket(h, Main))
    BY <1>1, <1>5, <1>12 DEF WriteResponseFails, CheckForResponseFails
  <2> QED
    BY <1>7, <1>8, <2>1
<1>13. CASE ReceiveMessageFails
  <2>1. Goes("client", "returned", CleanSocket(CleanSocket(h, Main), Main))
    BY <1>1, <1>5, <1>13 DEF ReceiveMessageFails
  <2> QED
    BY <1>7, <1>8, <2>1
<1> QED
  BY <1>9, <1>10, <1>11, <1>12, <1>13 DEF ClientStep

-----------------------------------------------------------------------------
(* Where something is released twice.                                      *)

\* The first clean-up releases only what is held.
LEMMA FirstCleanUpFaultless ==
  ASSUME NEW h \in Holding, h.wsa = 1
  PROVE  /\ h.info # "freed" => WSACleanup(FreeAddrInfo(h)).faults = h.faults
         /\ h.info = "list" /\ Main \in h.open
              => CleanSocket(h, Main).faults = h.faults
<1>1. ASSUME h.info # "freed"
      PROVE  FreeAddrInfo(h).faults = h.faults
  <2>1. CASE h.info = "null"
    BY <2>1 DEF FreeAddrInfo
  <2>2. CASE h.info = "list"
    <3>1. FreeAddrInfo(h) = [h EXCEPT !.info = "freed"]
      BY <2>2, UseIs DEF FreeAddrInfo
    <3> QED
      BY <3>1 DEF Holding
  <2> QED
    BY <1>1, <2>1, <2>2 DEF Holding
<1>2. ASSUME NEW g \in Holding
      PROVE  WSACleanup(g).faults = g.faults
  BY <1>2 DEF WSACleanup, Holding
<1>3. ASSUME NEW g \in Holding, g.wsa = 1, Main \in g.open
      PROVE  CloseSocket(g, Main).faults = g.faults
  BY <1>3 DEF CloseSocket, Holding
<1>4. PICK f \in Holding : f = FreeAddrInfo(h) /\ f.wsa = 1 /\ f.open = h.open
  BY FreeAddrInfoIs
<1>5. Main \in Socket
  BY DEF Socket
<1>6. PICK g \in Holding : g = CloseSocket(f, Main)
  BY <1>5, CloseSocketIs
<1>7. CleanSocket(h, Main) = WSACleanup(g)
  BY <1>4, <1>6 DEF CleanSocket
<1> QED
  BY <1>1, <1>2, <1>3, <1>4, <1>6, <1>7

\* Program p returns behind a connection's loss.
LosesConnection(p) ==
  /\ at'[p] = "returned"
  /\ \/ p = "client" /\ at[p] \in {"GetClientName", "loop"}
     \/ p = "server" /\ at[p] = "loop" /\ Connected # {}

FaultsOnLossOnly ==
  \A p \in Program : holds'[p].faults # holds[p].faults => LosesConnection(p)

\* A step of one program leaves the faults of the other alone.
LEMMA GoesFaults ==
  ASSUME LifeInv, NEW p \in Program, NEW s, NEW h, Goes(p, s, h),
         h.faults = holds[p].faults \/ LosesConnection(p)
  PROVE  FaultsOnLossOnly
<1>1. holds' = [holds EXCEPT ![p] = h] /\ holds \in [Program -> Holding]
  BY DEF Goes, LifeInv
<1>2. holds'[p] = h /\ \A q \in Program \ {p} : holds'[q] = holds[q]
  BY <1>1
<1> QED
  BY <1>2 DEF FaultsOnLossOnly

\* A program that returns is at "returned".
LEMMA GoesIsAt ==
  ASSUME LifeInv, NEW p \in Program, NEW s, NEW h, Goes(p, s, h)
  PROVE  at'[p] = s
BY DEF Goes, LifeInv

\* Start-up.
LEMMA StartUpFaults ==
  ASSUME LifeInv, NEW p \in Program,
         InitializeWSA(p) \/ InitializeAddrInfo(p) \/ CreateSocket(p)
  PROVE  FaultsOnLossOnly
<1>1. PICK h \in Holding : h = holds[p]
  BY DEF LifeInv
<1>2. Fits(at[p], h) /\ Main \in Socket
  BY <1>1 DEF LifeInv, Socket
<1>3. CASE InitializeWSA(p)
  <2>1. [h EXCEPT !.wsa = @ + 1].faults = h.faults
    BY DEF Holding
  <2> QED
    BY <1>1, <1>3, <2>1, GoesFaults DEF InitializeWSA
<1>4. CASE InitializeAddrInfo(p)
  <2>1. h.wsa = 1 /\ h.info = "null"
    BY <1>2, <1>4 DEF InitializeAddrInfo, Fits
  <2>2. [h EXCEPT !.info = "list"].faults = h.faults
    BY DEF Holding
  <2>3. WSACleanup(FreeAddrInfo(h)).faults = h.faults
    BY <2>1, FirstCleanUpFaultless
  <2> QED
    BY <1>1, <1>4, <2>2, <2>3, GoesFaults DEF InitializeAddrInfo
<1>5. CASE CreateSocket(p)
  <2>1. h.wsa = 1 /\ h.info = "list"
    BY <1>2, <1>5 DEF CreateSocket, Fits
  <2>2. UseInfo(h) = h
    BY <2>1, UseIs
  <2>3. [h EXCEPT !.open = @ \cup {Main}].faults = h.faults
    BY DEF Holding
  <2>4. WSACleanup(FreeAddrInfo(h)).faults = h.faults
    BY <2>1, FirstCleanUpFaultless
  <2>5. \/ \E s : Goes(p, s, [h EXCEPT !.open = @ \cup {Main}])
        \/ Goes(p, "returned", WSACleanup(FreeAddrInfo(h)))
    BY <1>1, <1>5, <2>2 DEF CreateSocket
  <2> QED
    BY <1>1, <2>3, <2>4, <2>5, GoesFaults
<1> QED
  BY <1>3, <1>4, <1>5

\* The server.
LEMMA ServerFaults ==
  ASSUME LifeInv, ServerStep
  PROVE  FaultsOnLossOnly
<1>0. "server" \in Program /\ Main \in Socket
  BY DEF Program, Socket
<1>1. PICK h \in Holding : h = holds["server"]
  BY <1>0 DEF LifeInv
<1>2. Fits(at["server"], h)
  BY <1>0, <1>1 DEF LifeInv
<1>3. at["server"] \in {"Bind", "Listen", "loop"}
  BY DEF ServerStep, Bind, Listen, Serve, SelectFails, Accept, AcceptFails, ReceiveFails,
     SendFails
<1>4. h.wsa = 1 /\ Main \in h.open /\ h.info = "list"
  BY <1>2, <1>3 DEF Fits, Starting
<1>5. /\ UseInfo(h) = h /\ Use(h, Main) = h
      /\ \A c \in Connected : Use(h, c) = h
  BY <1>1, <1>4, UseIs DEF Connected
<1>6. CleanSocket(h, Main).faults = h.faults
  BY <1>4, FirstCleanUpFaultless
\* Going on with what it holds, or returning from the first clean-up.
<1>7. ASSUME NEW s, NEW g, Goes("server", s, g), g.faults = h.faults
      PROVE  FaultsOnLossOnly
  BY <1>0, <1>1, <1>7, GoesFaults
<1>8. CASE Bind
  <2>1. Goes("server", "Listen", h) \/ Goes("server", "returned", CleanSocket(h, Main))
    BY <1>1, <1>5, <1>8 DEF Bind
  <2> QED
    BY <1>6, <1>7, <2>1
<1>9. CASE Listen
  <2>1. Goes("server", "loop", h) \/ Goes("server", "returned", CleanSocket(h, Main))
    BY <1>1, <1>5, <1>9 DEF Listen
  <2> QED
    BY <1>6, <1>7, <2>1
<1>10. CASE Serve
  <2>1. Goes("server", "loop", h)
    BY <1>1, <1>5, <1>10 DEF Serve
  <2> QED
    BY <1>7, <2>1
<1>11. CASE SelectFails
  <2>1. Goes("server", "selectFailed", CloseSocket(h, Main))
    BY <1>1, <1>5, <1>11 DEF SelectFails
  <2>2. CloseSocket(h, Main).faults = h.faults
    BY <1>4 DEF CloseSocket, Holding
  <2> QED
    BY <1>7, <2>1, <2>2
<1>12. CASE Accept
  <2>1. PICK c \in Connections : Goes("server", "loop", [h EXCEPT !.open = @ \cup {c}])
    BY <1>1, <1>5, <1>12 DEF Accept
  <2>2. [h EXCEPT !.open = @ \cup {c}].faults = h.faults
    BY DEF Holding
  <2> QED
    BY <1>7, <2>1, <2>2
<1>13. CASE AcceptFails
  <2>1. Goes("server", "returned", CleanSocket(h, Main))
    BY <1>1, <1>5, <1>13 DEF AcceptFails
  <2> QED
    BY <1>6, <1>7, <2>1
\* Both of the others are the failure of a connection.
<1>14. CASE ReceiveFails \/ SendFails
  <2>1. PICK g : Goes("server", "returned", g)
    BY <1>14 DEF ReceiveFails, SendFails
  <2>2. LosesConnection("server")
    BY <1>0, <1>14, <2>1, GoesIsAt DEF LosesConnection, ReceiveFails, SendFails
  <2> QED
    BY <1>0, <2>1, <2>2, GoesFaults
<1> QED
  BY <1>8, <1>9, <1>10, <1>11, <1>12, <1>13, <1>14 DEF ServerStep

\* The client.
LEMMA ClientFaults ==
  ASSUME LifeInv, ClientStep
  PROVE  FaultsOnLossOnly
<1>0. "client" \in Program /\ "client" # "server"
  BY DEF Program
<1>1. PICK h \in Holding : h = holds["client"]
  BY <1>0 DEF LifeInv
<1>2. Fits(at["client"], h)
  BY <1>0, <1>1 DEF LifeInv
<1>3. at["client"] \in {"ConnectSocket", "GetClientName", "loop"}
  BY DEF ClientStep, ConnectSocket, GetClientName, Talk, WriteResponseFails,
     CheckForResponseFails, ReceiveMessageFails
<1>4. h.wsa = 1 /\ Main \in h.open /\ h.info = "list"
  BY <1>2, <1>3 DEF Fits, Starting
<1>5. UseInfo(h) = h /\ Use(h, Main) = h
  BY <1>4, UseIs
<1>6. CASE ConnectSocket
  <2>1. holds' = [holds EXCEPT !["client"] = h] /\ holds \in [Program -> Holding]
    BY <1>1, <1>5, <1>6 DEF ConnectSocket, LifeInv
  <2>2. holds' = holds
    BY <1>1, <2>1
  <2> QED
    BY <2>2 DEF FaultsOnLossOnly
<1>7. CASE Talk
  <2>1. Goes("client", "loop", h)
    BY <1>1, <1>5, <1>7 DEF Talk
  <2> QED
    BY <1>0, <1>1, <2>1, GoesFaults
\* The others start from the name or the loop, and return or go on with what is held.
<1>8. CASE GetClientName \/ WriteResponseFails \/ CheckForResponseFails
           \/ ReceiveMessageFails
  <2>1. at["client"] \in {"GetClientName", "loop"}
    BY <1>8 DEF GetClientName, WriteResponseFails, CheckForResponseFails,
       ReceiveMessageFails
  <2>2. Goes("client", "loop", h) \/ \E g : Goes("client", "returned", g)
    BY <1>1, <1>5, <1>8 DEF GetClientName, WriteResponseFails, CheckForResponseFails,
       ReceiveMessageFails
  <2>3. CASE Goes("client", "loop", h)
    BY <1>0, <1>1, <2>3, GoesFaults
  <2>4. ASSUME NEW g, Goes("client", "returned", g)
        PROVE  FaultsOnLossOnly
    <3>1. LosesConnection("client")
      BY <1>0, <2>1, <2>4, GoesIsAt DEF LosesConnection
    <3> QED
      BY <1>0, <2>4, <3>1, GoesFaults
  <2> QED
    BY <2>2, <2>3, <2>4
<1> QED
  BY <1>6, <1>7, <1>8 DEF ClientStep

-----------------------------------------------------------------------------
(* What follows.                                                           *)

\* Both programs start in the invariant.
LEMMA InitLife == Init => LifeInv
<1> SUFFICES ASSUME Init
             PROVE  LifeInv
  OBVIOUS
<1> DEFINE h == [wsa |-> 0, info |-> "null", open |-> {}, faults |-> {}]
<1>1. h \in Holding
  BY DEF Holding
<1>2. \A p \in Program : Fits("InitializeWSA", h)
  BY <1>1 DEF Fits, Starting
<1>3. holds = [p \in Program |-> h] /\ at = [p \in Program |-> "InitializeWSA"]
      /\ connected = FALSE
  BY DEF Init
<1> HIDE DEF h
<1>4. /\ at \in [Program -> Stage] /\ holds \in [Program -> Holding]
      /\ \A p \in Program : at[p] = "InitializeWSA" /\ holds[p] = h
  BY <1>1, <1>3 DEF Stage
<1>5. connected \in BOOLEAN
  BY <1>3
<1>6. \A p \in Program : Fits(at[p], holds[p])
  BY <1>2, <1>4
<1> QED
  BY <1>4, <1>5, <1>6 DEF LifeInv

\* It is always true.
THEOREM LifeInvariance == Spec => []LifeInv
<1>1. LifeInv /\ [Next]_vars => LifeInv'
  <2> SUFFICES ASSUME LifeInv, [Next]_vars
               PROVE  LifeInv'
    OBVIOUS
  <2>1. CASE UNCHANGED vars
    BY <2>1 DEF vars, LifeInv
  <2> QED
    BY <2>1, StartUpKeeps, ServerKeepsLife, ClientKeepsLife DEF Next, Ended
<1> QED
  BY <1>1, InitLife, PTL DEF Spec

\* The programs' places, and what they hold, are of their types.
THEOREM LifecycleTypeCorrect == Spec => []TypeOK
<1>1. LifeInv => TypeOK
  BY DEF LifeInv, TypeOK, Holding
<1> QED
  BY <1>1, LifeInvariance, PTL

\* What is released once more is released by a program that has lost a connection,
\* and on its way out.
THEOREM CleansAgainOnLossOnlyCorrect == Spec => CleansAgainOnLossOnly
<1>1. LifeInv /\ [Next]_vars => FaultsOnLossOnly
  <2> SUFFICES ASSUME LifeInv, [Next]_vars
               PROVE  FaultsOnLossOnly
    OBVIOUS
  <2>1. CASE UNCHANGED vars
    BY <2>1 DEF vars, FaultsOnLossOnly
  <2> QED
    BY <2>1, StartUpFaults, ServerFaults, ClientFaults DEF Next, Ended
<1>2. [FaultsOnLossOnly]_vars
        => [\A p \in Program :
              holds'[p].faults # holds[p].faults =>
                /\ at'[p] = "returned"
                /\ \/ p = "client" /\ at[p] \in {"GetClientName", "loop"}
                   \/ p = "server" /\ at[p] = "loop" /\ Connected # {}]_vars
  BY DEF FaultsOnLossOnly, LosesConnection
<1> QED
  BY <1>1, <1>2, LifeInvariance, PTL DEF Spec, CleansAgainOnLossOnly

\* Whichever call failed, a program that returns has given up all it acquired; the
\* way out behind the server's select() alone is another one.
THEOREM ReturnedHoldsNothingCorrect == Spec => []ReturnedHoldsNothing
<1>1. LifeInv => ReturnedHoldsNothing
  BY DEF LifeInv, ReturnedHoldsNothing, Fits
<1> QED
  BY <1>1, LifeInvariance, PTL
=============================================================================
