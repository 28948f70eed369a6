--------------------------- MODULE PanelViewsProofs ---------------------------
(***************************************************************************)
(* Proofs about PanelViews, for any number of readers, browsers, tickets,  *)
(* nodes and rows: what the panel shows is current, scoped and consistent, *)
(* and no browser misses a change.                                         *)
(***************************************************************************)
EXTENDS PanelViews, WellFoundedInduction, TLAPS

-----------------------------------------------------------------------------
(* Facts the proofs share.                                                  *)

LEMMA ConstantFacts ==
    /\ CacheTtl \in Nat /\ CacheTtl > 0 /\ ChannelCapacity \in Nat /\ ChannelCapacity > 0
    /\ Freshness \in Nat /\ OfflineAfter \in Nat /\ RetiredAfter \in Nat /\ Delays \subseteq Nat
    /\ Freshness <= OfflineAfter /\ OfflineAfter <= RetiredAfter
  BY PanelViewsAssumption

\* An upsert.
LEMMA PutFacts ==
    ASSUME NEW f, NEW k, NEW v
    PROVE  /\ DOMAIN Put(f, k, v) = DOMAIN f \cup {k}
           /\ Put(f, k, v)[k] = v
           /\ \A x \in DOMAIN f : x # k => Put(f, k, v)[x] = f[x]
  BY DEF Put

\* A set of natural numbers that is not empty has a least element.
LEMMA LeastExists ==
    ASSUME NEW T \in SUBSET Nat, T # {}
    PROVE  \E x \in T : \A y \in T : x <= y
<1>1. PICK x \in T : \A y \in T : ~(<<y, x>> \in OpToRel(<, Nat))
  BY NatLessThanWellFounded, WFMin, Zenon
<1>2. \A y \in T : ~(y < x)
  BY <1>1 DEF OpToRel
<1>3. QED
  BY <1>2

\* A bounded one has a greatest element.
LEMMA GreatestExists ==
    ASSUME NEW b \in Nat, NEW T \in SUBSET (0..b), T # {}
    PROVE  \E x \in T : \A y \in T : x >= y
<1>1. {b - x : x \in T} \in SUBSET Nat /\ {b - x : x \in T} # {}
  <2>1. \A x \in T : b - x \in Nat
    OBVIOUS
  <2>2. PICK x : x \in T
    OBVIOUS
  <2>3. b - x \in {b - y : y \in T}
    BY <2>2
  <2>4. QED
    BY <2>1, <2>3
<1>2. PICK z \in {b - x : x \in T} : \A y \in {b - x : x \in T} : z <= y
  BY <1>1, LeastExists
<1>3. PICK x \in T : z = b - x
  BY <1>2
<1>4. \A y \in T : b - x <= b - y
  BY <1>2, <1>3
<1>5. QED
  BY <1>4

\* Max of a bounded set is one of its elements.
LEMMA MaxFacts ==
    ASSUME NEW b \in Nat, NEW T \in SUBSET (0..b), T # {}
    PROVE  Max(T) \in T /\ \A y \in T : Max(T) >= y
  BY GreatestExists DEF Max

-----------------------------------------------------------------------------
(* The inductive invariants.                                                *)

\* The streams: a ticket that is left has opened none, and a browser that is
\* behind has an event waiting or has lagged.
SocketType ==
    {Closed} \cup [pc : {"upgrade"}, role : {NoRole, Public, Private}]
    \cup [pc : {"open"}, role : {NoRole, Public, Private}, pending : Nat, lagged : BOOLEAN,
          told : Nat]

StreamInv ==
    /\ announced \in Nat
    /\ socket \in [Socket -> SocketType]
    /\ RefreshNotLost
    /\ DOMAIN tickets \subseteq DOMAIN spent
    /\ \A t \in DOMAIN tickets : tickets[t].role \in {NoRole, Public, Private} /\ spent[t] = 0
    /\ \A t \in DOMAIN spent : spent[t] \in {0, 1}

\* The summary: what is being built, and a cached summary that may still be used,
\* has everything known.
ReaderPhase == {"idle", "counts", "store", "answered", "shown"}
CacheType == {NoSummary} \cup [until : Nat, seen : Nat]
SummaryReader == [pc : {"counts", "store", "answered"}, seen : Nat, since : Nat]

SummaryInv ==
    /\ clock \in Nat /\ version \in Nat /\ known \in Nat /\ known <= version
    /\ cache \in CacheType
    /\ Usable(cache, clock) => cache.seen >= known
    /\ DOMAIN reader = Reader
    /\ \A r \in Reader :
         /\ reader[r].pc \in ReaderPhase
         /\ reader[r].pc \in {"counts", "store", "answered"} => reader[r] \in SummaryReader
         /\ Building(reader[r]) => reader[r].seen >= known /\ reader[r].seen >= reader[r].since
    /\ SummaryCurrent

\* Nodes: a row is no younger than the youngest message of its node.
NodeInv ==
    /\ clock \in Nat
    /\ \A n \in DOMAIN seenAt :
         /\ seenAt[n] \in 0..clock
         /\ NodeRows[n] \in DOMAIN heard /\ seenAt[n] <= heard[NodeRows[n]]
    /\ \A name \in DOMAIN heard : heard[name] \in 0..clock

\* Reviews are not from the future.
ReviewInv ==
    /\ clock \in Nat
    /\ \A i \in DOMAIN reviews : reviews[i].at \in 0..clock
    /\ DOMAIN writer = Writers
    /\ writer["review"].pc = "write" => writer["review"].review.at \in 0..clock

-----------------------------------------------------------------------------
(* The event stream.                                                        *)

LEMMA RoleType ==
    ASSUME NEW c, NEW credential
    PROVE  ResolveRole(c, credential) \in {NoRole, Public, Private}
  BY DEF ResolveRole

\* What an open stream is, and what happens to it.
LEMMA OpenSocket ==
    ASSUME NEW x \in SocketType, x.pc = "open"
    PROVE  /\ x.pending \in Nat /\ x.told \in Nat /\ x.lagged \in BOOLEAN
           /\ x.role \in {NoRole, Public, Private}
           /\ x \in [pc : {"open"}, role : {NoRole, Public, Private}, pending : Nat,
                     lagged : BOOLEAN, told : Nat]
  BY DEF SocketType, Closed

LEMMA DeliveredFacts ==
    ASSUME NEW x \in SocketType
    PROVE  /\ Delivered(x) \in SocketType
           /\ Delivered(x).pc = "open" => Delivered(x).pending > 0 \/ Delivered(x).lagged
<1> DEFINE O == [pc : {"open"}, role : {NoRole, Public, Private}, pending : Nat,
                 lagged : BOOLEAN, told : Nat]
<1>1. CASE x.pc # "open"
  BY <1>1 DEF Delivered
<1>2. CASE x.pc = "open" /\ x.pending = ChannelCapacity
  <2>1. PICK y : y = [x EXCEPT !.lagged = TRUE]
    OBVIOUS
  <2>2. y \in O /\ y.lagged = TRUE
    BY <1>2, <2>1, OpenSocket
  <2>3. Delivered(x) = y
    BY <1>2, <2>1 DEF Delivered
  <2>4. QED
    BY <2>2, <2>3 DEF SocketType
<1>3. CASE x.pc = "open" /\ x.pending # ChannelCapacity
  <2>1. PICK y : y = [x EXCEPT !.pending = x.pending + 1]
    OBVIOUS
  <2>2. y \in O /\ y.pending = x.pending + 1 /\ x.pending \in Nat
    BY <1>3, <2>1, OpenSocket
  <2>3. Delivered(x) = y
    BY <1>3, <2>1 DEF Delivered
  <2>4. QED
    BY <2>2, <2>3 DEF SocketType
<1>4. QED
  BY <1>1, <1>2, <1>3

LEMMA ReceivedFacts ==
    ASSUME NEW x \in SocketType, x.pc = "open", x.lagged \/ x.pending > 0, announced \in Nat
    PROVE  Received(x) \in SocketType /\ Received(x).told = announced
<1>1. PICK n : n = IF x.lagged THEN x.pending ELSE x.pending - 1
  OBVIOUS
<1>2. n \in Nat
  BY <1>1, OpenSocket
<1>3. PICK y : y = [x EXCEPT !.told = announced, !.lagged = FALSE, !.pending = n]
  OBVIOUS
<1>4. /\ y \in [pc : {"open"}, role : {NoRole, Public, Private}, pending : Nat,
                lagged : BOOLEAN, told : Nat]
      /\ y.told = announced
  BY <1>2, <1>3, OpenSocket
<1>5. Received(x) = y
  BY <1>1, <1>3 DEF Received
<1>6. QED
  BY <1>4, <1>5 DEF SocketType

\* A step of one browser's stream that uses no ticket.
LEMMA SocketStep ==
    ASSUME StreamInv, NEW s \in Socket, NEW x \in SocketType,
           socket' = [socket EXCEPT ![s] = x], UNCHANGED <<announced, tickets, spent>>,
           x.pc = "open" => x.told = announced
    PROVE  StreamInv'
<1>1. socket' \in [Socket -> SocketType] /\ socket'[s] = x
      /\ \A z \in Socket \ {s} : socket'[z] = socket[z]
  BY DEF StreamInv
<1>2. RefreshNotLost'
  BY <1>1 DEF StreamInv, RefreshNotLost
<1>3. QED
  BY <1>1, <1>2 DEF StreamInv

LEMMA AnnounceStream ==
    ASSUME StreamInv, NEW w, Announce(w)
    PROVE  StreamInv'
<1>1. /\ announced' = announced + 1 /\ UNCHANGED <<tickets, spent>>
      /\ socket' = [s \in Socket |-> Delivered(socket[s])]
  BY DEF Announce
<1>2. \A s \in Socket : socket[s] \in SocketType
  BY DEF StreamInv
<1>3. \A s \in Socket : /\ socket'[s] \in SocketType
                        /\ socket'[s].pc = "open" => socket'[s].pending > 0 \/ socket'[s].lagged
  BY <1>1, <1>2, DeliveredFacts
<1>4. socket' \in [Socket -> SocketType]
  BY <1>1, <1>3
<1>5. QED
  BY <1>1, <1>3, <1>4 DEF StreamInv, RefreshNotLost

LEMMA TakeTicketStream ==
    ASSUME StreamInv, NEW t, NEW c, TakeTicket(t, c)
    PROVE  StreamInv'
<1>1. PICK k : k = [role |-> ResolveRole(conf, c), expires |-> clock + TicketTtl]
  OBVIOUS
<1>2. /\ t \notin DOMAIN spent /\ UNCHANGED <<socket, announced>>
      /\ tickets' = Put(Only(Unexpired), t, k) /\ spent' = Put(spent, t, 0)
  BY <1>1 DEF TakeTicket, OnlyStreams
<1>3. k.role \in {NoRole, Public, Private}
  BY <1>1, RoleType
<1>4. /\ DOMAIN Only(Unexpired) \subseteq DOMAIN tickets
      /\ \A z \in DOMAIN Only(Unexpired) : Only(Unexpired)[z] = tickets[z]
  BY DEF Only, Unexpired
<1>5. DOMAIN tickets' = DOMAIN Only(Unexpired) \cup {t} /\ DOMAIN spent' = DOMAIN spent \cup {t}
  BY <1>2, PutFacts
<1>6. \A z \in DOMAIN tickets' :
        tickets'[z].role \in {NoRole, Public, Private} /\ spent'[z] = 0
  <2>1. SUFFICES ASSUME NEW z \in DOMAIN tickets'
                 PROVE  tickets'[z].role \in {NoRole, Public, Private} /\ spent'[z] = 0
    OBVIOUS
  <2>2. CASE z = t
    BY <1>2, <1>3, <2>2 DEF Put
  <2>3. CASE z # t
    <3>1. z \in DOMAIN Only(Unexpired) /\ z \in DOMAIN spent
      BY <1>4, <1>5, <2>3 DEF StreamInv
    <3>2. tickets'[z] = tickets[z] /\ spent'[z] = spent[z]
      BY <1>2, <1>4, <2>3, <3>1 DEF Put
    <3>3. QED
      BY <1>4, <3>1, <3>2 DEF StreamInv
  <2>4. QED
    BY <2>2, <2>3
<1>7. \A z \in DOMAIN spent' : spent'[z] \in {0, 1}
  <2>1. \A z \in DOMAIN spent : z # t => spent'[z] = spent[z]
    BY <1>2 DEF Put
  <2>2. spent'[t] = 0
    BY <1>2 DEF Put
  <2>3. QED
    BY <1>5, <2>1, <2>2 DEF StreamInv
<1>8. QED
  BY <1>2, <1>4, <1>5, <1>6, <1>7 DEF StreamInv, RefreshNotLost

\* The ticket that opens a stream is taken out of stream_tickets.
LEMMA OpenStreamStream ==
    ASSUME StreamInv, NEW s \in Socket, NEW t, OpenStream(s, t)
    PROVE  StreamInv'
<1>1. PICK x : x = [pc |-> "upgrade", role |-> tickets[t].role]
  OBVIOUS
<1>2. /\ t \in Unexpired /\ tickets' = Only(Unexpired \ {t})
      /\ spent' = [spent EXCEPT ![t] = spent[t] + 1] /\ socket' = [socket EXCEPT ![s] = x]
      /\ announced' = announced
  BY <1>1 DEF OpenStream, OnlyStreams, LeftTickets
<1>3. t \in DOMAIN tickets /\ tickets[t].role \in {NoRole, Public, Private} /\ spent[t] = 0
      /\ t \in DOMAIN spent
  BY <1>2 DEF StreamInv, Unexpired
<1>4. x \in SocketType /\ x.pc = "upgrade"
  BY <1>1, <1>3 DEF SocketType
<1>5. socket' \in [Socket -> SocketType] /\ RefreshNotLost'
  BY <1>2, <1>4 DEF StreamInv, RefreshNotLost
<1>6. /\ DOMAIN tickets' \subseteq DOMAIN tickets \ {t}
      /\ \A z \in DOMAIN tickets' : tickets'[z] = tickets[z]
  BY <1>2 DEF Only, Unexpired
<1>7. /\ DOMAIN spent' = DOMAIN spent /\ spent'[t] = 1
      /\ \A z \in DOMAIN spent : z # t => spent'[z] = spent[z]
  BY <1>2, <1>3
<1>8. QED
  BY <1>2, <1>5, <1>6, <1>7 DEF StreamInv

LEMMA SubscribeStream ==
    ASSUME StreamInv, NEW s \in Socket, Subscribe(s) \/ SendRefresh(s) \/ CloseStream(s)
    PROVE  StreamInv'
<1>1. CASE Subscribe(s)
  <2>1. PICK x : x = [pc |-> "open", role |-> socket[s].role, pending |-> 0, lagged |-> FALSE,
                      told |-> announced]
    OBVIOUS
  <2>2. socket' = [socket EXCEPT ![s] = x] /\ UNCHANGED <<announced, tickets, spent>>
        /\ socket[s].pc = "upgrade"
    BY <1>1, <2>1 DEF Subscribe, OnlyStreams
  <2>3. socket[s].role \in {NoRole, Public, Private}
    BY <2>2 DEF StreamInv, SocketType, Closed
  <2>4. x \in SocketType /\ x.told = announced
    BY <2>1, <2>3 DEF SocketType, StreamInv
  <2>5. QED
    BY <2>2, <2>4, SocketStep
<1>2. CASE SendRefresh(s)
  <2>1. /\ socket' = [socket EXCEPT ![s] = Received(socket[s])]
        /\ UNCHANGED <<announced, tickets, spent>>
        /\ socket[s].pc = "open" /\ (socket[s].lagged \/ socket[s].pending > 0)
    BY <1>2 DEF SendRefresh, OnlyStreams
  <2>2. Received(socket[s]) \in SocketType /\ Received(socket[s]).told = announced
    BY <2>1, ReceivedFacts DEF StreamInv
  <2>3. QED
    BY <2>1, <2>2, SocketStep
<1>3. CASE CloseStream(s)
  <2>1. socket' = [socket EXCEPT ![s] = Closed] /\ UNCHANGED <<announced, tickets, spent>>
    BY <1>3 DEF CloseStream, OnlyStreams
  <2>2. Closed \in SocketType /\ Closed.pc # "open"
    BY DEF SocketType, Closed
  <2>3. QED
    BY <2>1, <2>2, SocketStep
<1>4. QED
  BY <1>1, <1>2, <1>3

\* A restart forgets every ticket and closes every stream.
LEMMA RestartStream ==
    ASSUME StreamInv, Restart
    PROVE  StreamInv'
<1>1. /\ UNCHANGED <<announced, spent>> /\ tickets' = << >>
      /\ socket' = [s \in Socket |-> Closed]
  BY DEF Restart
<1>2. socket' \in [Socket -> SocketType] /\ RefreshNotLost'
  BY <1>1 DEF SocketType, RefreshNotLost, Closed
<1>3. DOMAIN tickets' = {}
  BY <1>1
<1>4. QED
  BY <1>1, <1>2, <1>3 DEF StreamInv

LEMMA StreamStep ==
    ASSUME StreamInv, [ViewNext]_viewVars
    PROVE  StreamInv'
<1>1. \/ UNCHANGED streams
      \/ \E w \in Writers : Announce(w)
      \/ \E t \in Ticket, c \in Credential : TakeTicket(t, c)
      \/ \E s \in Socket, t \in Ticket : OpenStream(s, t)
      \/ \E s \in Socket : Subscribe(s) \/ SendRefresh(s) \/ CloseStream(s)
      \/ Restart
  BY DEF ViewNext, viewVars, streams, AskSummary, ReadCounts, StoreSummaryCache, Finish, ViewPage,
         StoreNode, StoreItem, NoItems, SignTarget, WritePanelReview, FailWrite,
         InvalidateSummaryCache, ClockTick, OnlyWrites
<1>2. CASE UNCHANGED streams
  BY <1>2 DEF streams, StreamInv, RefreshNotLost
<1>3. QED
  BY <1>1, <1>2, AnnounceStream, TakeTicketStream, OpenStreamStream, SubscribeStream, RestartStream

LEMMA InitStream == ViewInit => StreamInv
<1>1. SUFFICES ASSUME ViewInit PROVE StreamInv
  OBVIOUS
<1>2. announced = 0 /\ socket = [s \in Socket |-> Closed] /\ tickets = << >> /\ spent = << >>
  BY <1>1 DEF ViewInit
<1>3. socket \in [Socket -> SocketType] /\ RefreshNotLost
  BY <1>2 DEF SocketType, RefreshNotLost, Closed
<1>4. DOMAIN tickets = {} /\ DOMAIN spent = {}
  BY <1>2
<1>5. QED
  BY <1>2, <1>3, <1>4 DEF StreamInv

\* A browser that is behind is going to be told, and a ticket opens one stream,
\* for any number of browsers and tickets, any channel capacity and any restarts
\* (stream.rs, consume_stream_ticket).
THEOREM StreamsSound == ViewSpec => []StreamSound
<1>1. ViewInit => StreamInv
  BY InitStream
<1>2. StreamInv /\ [ViewNext]_viewVars => StreamInv'
  BY StreamStep
<1>3. StreamInv => StreamSound
  BY DEF StreamInv, StreamSound, TicketsSpentOnce
<1>4. QED
  BY <1>1, <1>2, <1>3, PTL DEF ViewSpec

-----------------------------------------------------------------------------
(* The summary.                                                             *)

\* What every step does to the history variables: Learn raises known to the
\* present version only when no summary is under construction and none is usable.
LEMMA SummaryStep ==
    ASSUME SummaryInv, NEW b \in BOOLEAN, Learn(b), b => cache' = NoSummary,
           clock' \in Nat, version' \in Nat, version' >= version,
           cache' \in CacheType, Usable(cache', clock') => cache'.seen >= known,
           DOMAIN reader' = Reader,
           \A r \in Reader :
             /\ reader'[r].pc \in ReaderPhase
             /\ reader'[r].pc \in {"counts", "store", "answered"} => reader'[r] \in SummaryReader
             /\ Building(reader'[r]) =>
                  reader'[r].seen >= known /\ reader'[r].seen >= reader'[r].since
             /\ reader'[r].pc = "answered" => reader'[r].seen >= reader'[r].since
    PROVE  SummaryInv'
<1>1. known' = known \/ (known' = version' /\ ~Usable(cache', clock')
                         /\ \A r \in Reader : ~Building(reader'[r]))
  <2>1. b => ~Usable(cache', clock')
    BY DEF Usable
  <2>2. QED
    BY <2>1 DEF Learn
<1>2. known' \in Nat /\ known' <= version'
  BY <1>1 DEF SummaryInv
<1>3. Usable(cache, clock)' => (cache.seen >= known)'
  BY <1>1 DEF Usable
<1>4. SummaryCurrent'
  BY DEF SummaryCurrent
<1>5. \A r \in Reader : Building(reader'[r]) => reader'[r].seen >= known'
  BY <1>1
<1>6. QED
  BY <1>2, <1>3, <1>4, <1>5 DEF SummaryInv

\* A step that leaves the readers alone, and the cache too or clears it.
LEMMA SummaryFrame ==
    ASSUME SummaryInv, NEW b \in BOOLEAN, Learn(b),
           UNCHANGED reader, cache' = NoSummary \/ (UNCHANGED cache /\ ~b),
           clock' \in Nat, clock' >= clock, version' \in Nat, version' >= version
    PROVE  SummaryInv'
<1>1. cache' \in CacheType /\ (Usable(cache', clock') => cache'.seen >= known)
  <2>1. cache' \in CacheType
    BY DEF SummaryInv, CacheType
  <2>2. SUFFICES ASSUME Usable(cache', clock') PROVE cache'.seen >= known
    BY <2>1
  <2>3. cache' = cache /\ cache # NoSummary
    BY <2>2 DEF Usable
  <2>4. cache.until \in Nat /\ clock \in Nat
    BY <2>3 DEF SummaryInv, CacheType
  <2>5. Usable(cache, clock)
    BY <2>2, <2>3, <2>4 DEF Usable
  <2>6. QED
    BY <2>3, <2>5 DEF SummaryInv
<1>2. b => cache' = NoSummary
  OBVIOUS
<1>3. \A r \in Reader :
        /\ reader'[r].pc \in ReaderPhase
        /\ reader'[r].pc \in {"counts", "store", "answered"} => reader'[r] \in SummaryReader
        /\ Building(reader'[r]) =>
             reader'[r].seen >= known /\ reader'[r].seen >= reader'[r].since
        /\ reader'[r].pc = "answered" => reader'[r].seen >= reader'[r].since
  BY DEF SummaryInv, SummaryCurrent
<1>4. DOMAIN reader' = Reader
  BY DEF SummaryInv
<1>5. QED
  BY <1>1, <1>2, <1>3, <1>4, SummaryStep

\* A step of request r, which leaves it with local variables x.
LEMMA ReaderStep ==
    ASSUME SummaryInv, Learn(FALSE), NEW r \in Reader, NEW x,
           reader' = [reader EXCEPT ![r] = x], UNCHANGED <<clock, version>>,
           cache' = cache \/ cache' = NoSummary
             \/ (cache' \in [until : Nat, seen : Nat] /\ cache'.seen >= known),
           x.pc \in ReaderPhase,
           x.pc \in {"counts", "store", "answered"} =>
             x \in SummaryReader /\ x.seen >= x.since,
           Building(x) => x.seen >= known
    PROVE  SummaryInv'
<1>1. DOMAIN reader' = Reader /\ reader'[r] = x /\ \A z \in Reader \ {r} : reader'[z] = reader[z]
  BY DEF SummaryInv
<1>2. ASSUME NEW z \in Reader
      PROVE  /\ reader'[z].pc \in ReaderPhase
             /\ reader'[z].pc \in {"counts", "store", "answered"} => reader'[z] \in SummaryReader
             /\ Building(reader'[z]) =>
                  reader'[z].seen >= known /\ reader'[z].seen >= reader'[z].since
             /\ reader'[z].pc = "answered" => reader'[z].seen >= reader'[z].since
  <2>1. CASE z = r
    BY <1>1, <2>1 DEF Building
  <2>2. CASE z # r
    BY <1>1, <2>2 DEF SummaryInv, SummaryCurrent
  <2>3. QED
    BY <2>1, <2>2
<1>3. cache' \in CacheType /\ (Usable(cache', clock') => cache'.seen >= known)
  BY DEF SummaryInv, CacheType, Usable
<1>4. clock' \in Nat /\ version' \in Nat /\ version' >= version /\ FALSE \in BOOLEAN
  BY DEF SummaryInv
<1>5. QED
  BY <1>1, <1>2, <1>3, <1>4, SummaryStep

LEMMA AskSummaryCurrent ==
    ASSUME SummaryInv, NEW r \in Reader, NEW c, AskSummary(r, c)
    PROVE  SummaryInv'
<1>1. Learn(FALSE) /\ UNCHANGED <<clock, version>>
  BY DEF AskSummary, stores
<1>2. CASE Cached
  <2>1. PICK x : x = [pc |-> "answered", seen |-> cache.seen, since |-> known]
    OBVIOUS
  <2>2. reader' = [reader EXCEPT ![r] = x] /\ cache' = cache
    BY <1>2, <2>1 DEF AskSummary, Answer
  <2>3. cache # NoSummary /\ cache.seen \in Nat /\ cache.seen >= known /\ known \in Nat
    BY <1>2 DEF Cached, Usable, SummaryInv, CacheType
  <2>4. x \in SummaryReader /\ x.pc = "answered" /\ x.seen >= x.since
    BY <2>1, <2>3 DEF SummaryReader
  <2>5. QED
    BY <1>1, <2>2, <2>4, ReaderStep DEF ReaderPhase, Building
<1>3. CASE ~Cached
  <2>1. PICK x : x = [pc |-> "counts", seen |-> version, since |-> known]
    OBVIOUS
  <2>2. reader' = [reader EXCEPT ![r] = x] /\ cache' = NoSummary
    BY <1>3, <2>1 DEF AskSummary
  <2>3. x \in SummaryReader /\ x.pc = "counts" /\ x.seen >= x.since /\ x.seen >= known
    BY <2>1 DEF SummaryReader, SummaryInv
  <2>4. QED
    BY <1>1, <2>2, <2>3, ReaderStep DEF ReaderPhase
<1>4. QED
  BY <1>2, <1>3

LEMMA ReadCountsCurrent ==
    ASSUME SummaryInv, NEW r \in Reader, ReadCounts(r)
    PROVE  SummaryInv'
<1>1. PICK x : x = [reader[r] EXCEPT !.pc = "store"]
  OBVIOUS
<1>2. /\ Learn(FALSE) /\ UNCHANGED <<clock, version, cache>> /\ reader[r].pc = "counts"
      /\ reader' = [reader EXCEPT ![r] = x]
  BY <1>1 DEF ReadCounts, stores
<1>3. reader[r] \in SummaryReader /\ reader[r].seen >= known
      /\ reader[r].seen >= reader[r].since
  BY <1>2 DEF SummaryInv, Building
<1>4. x \in SummaryReader /\ x.pc = "store" /\ x.seen = reader[r].seen /\ x.since = reader[r].since
  BY <1>1, <1>3 DEF SummaryReader
<1>5. QED
  BY <1>2, <1>3, <1>4, ReaderStep DEF ReaderPhase

LEMMA StoreSummaryCurrent ==
    ASSUME SummaryInv, NEW r \in Reader, StoreSummaryCache(r)
    PROVE  SummaryInv'
<1>1. PICK x : x = [pc |-> "answered", seen |-> reader[r].seen, since |-> reader[r].since]
  OBVIOUS
<1>2. /\ Learn(FALSE) /\ UNCHANGED <<clock, version>> /\ reader[r].pc = "store"
      /\ reader' = [reader EXCEPT ![r] = x]
      /\ cache' = [until |-> clock + CacheTtl, seen |-> reader[r].seen]
  BY <1>1 DEF StoreSummaryCache, Answer, stores
<1>3. reader[r] \in SummaryReader /\ reader[r].seen >= known
      /\ reader[r].seen >= reader[r].since
  BY <1>2 DEF SummaryInv, Building
<1>4. x \in SummaryReader /\ x.pc = "answered" /\ x.seen >= x.since
  BY <1>1, <1>3 DEF SummaryReader
<1>5. cache' \in [until : Nat, seen : Nat] /\ cache'.seen >= known
  BY <1>2, <1>3, ConstantFacts DEF SummaryReader, SummaryInv
<1>6. QED
  BY <1>2, <1>4, <1>5, ReaderStep DEF ReaderPhase, Building

LEMMA OtherReadsCurrent ==
    ASSUME SummaryInv, NEW r \in Reader,
           Finish(r) \/ (\E c \in Credential, page \in Pages : ViewPage(r, page, c))
    PROVE  SummaryInv'
<1>1. CASE Finish(r)
  <2>1. /\ Learn(FALSE) /\ UNCHANGED <<clock, version, cache>>
        /\ reader' = [reader EXCEPT ![r] = Waiting]
    BY <1>1 DEF Finish, stores
  <2>2. Waiting.pc = "idle"
    BY DEF Waiting
  <2>3. QED
    BY <2>1, <2>2, ReaderStep DEF ReaderPhase, Building
<1>2. ASSUME NEW c, NEW page, ViewPage(r, page, c) PROVE SummaryInv'
  <2>1. PICK x : x = [pc |-> "shown", role |-> ResolveRole(conf, c), page |-> page,
                      keys |-> Response(page, ResolveRole(conf, c))]
    OBVIOUS
  <2>2. /\ Learn(FALSE) /\ UNCHANGED <<clock, version, cache>>
        /\ reader' = [reader EXCEPT ![r] = x]
    BY <1>2, <2>1 DEF ViewPage, stores
  <2>3. x.pc = "shown"
    BY <2>1
  <2>4. QED
    BY <2>2, <2>3, ReaderStep DEF ReaderPhase, Building
<1>3. QED
  BY <1>1, <1>2

LEMMA RestartCurrent ==
    ASSUME SummaryInv, Restart
    PROVE  SummaryInv'
<1>1. /\ Learn(TRUE) /\ cache' = NoSummary /\ UNCHANGED <<clock, version>>
      /\ reader' = [r \in Reader |-> Waiting]
  BY DEF Restart, stores
<1>2. \A r \in Reader : reader'[r].pc = "idle"
  BY <1>1 DEF Waiting
<1>3. cache' \in CacheType /\ ~Usable(cache', clock')
  BY <1>1 DEF CacheType, Usable
<1>4. clock' \in Nat /\ version' \in Nat /\ version' >= version /\ TRUE \in BOOLEAN
  BY <1>1 DEF SummaryInv
<1>5. DOMAIN reader' = Reader
  BY <1>1
<1>6. \A r \in Reader :
        /\ reader'[r].pc \in ReaderPhase
        /\ reader'[r].pc \notin {"counts", "store", "answered"} /\ ~Building(reader'[r])
  BY <1>2 DEF ReaderPhase, Building
<1>7. QED
  BY <1>1, <1>3, <1>4, <1>5, <1>6, SummaryStep

LEMMA SummaryNext ==
    ASSUME SummaryInv, [ViewNext]_viewVars
    PROVE  SummaryInv'
<1> DEFINE Reads == \E r \in Reader : \/ \E c \in Credential : AskSummary(r, c)
                                      \/ ReadCounts(r) \/ StoreSummaryCache(r) \/ Finish(r)
                                      \/ \E c \in Credential, page \in Pages : ViewPage(r, page, c)
<1>1. CASE Reads
  BY <1>1, AskSummaryCurrent, ReadCountsCurrent, StoreSummaryCurrent, OtherReadsCurrent
<1>2. CASE Restart
  BY <1>2, RestartCurrent
<1>3. CASE \E w \in Writers : InvalidateSummaryCache(w)
  <2>1. Learn(TRUE) /\ cache' = NoSummary /\ UNCHANGED <<clock, version, reader>>
    BY <1>3 DEF InvalidateSummaryCache, ClearedCache, stores
  <2>2. clock' \in Nat /\ version' \in Nat /\ clock' >= clock /\ version' >= version
        /\ TRUE \in BOOLEAN
    BY <2>1 DEF SummaryInv
  <2>3. QED
    BY <2>1, <2>2, SummaryFrame
<1>4. CASE /\ Learn(FALSE) /\ UNCHANGED <<reader, cache>>
           /\ clock' = clock \/ clock' = clock + 1
           /\ version' = version \/ version' = version + 1
  <2>1. clock' \in Nat /\ version' \in Nat /\ clock' >= clock /\ version' >= version
        /\ FALSE \in BOOLEAN
    BY <1>4 DEF SummaryInv
  <2>2. QED
    BY <1>4, <2>1, SummaryFrame
<1>5. CASE UNCHANGED viewVars
  BY <1>5 DEF viewVars, SummaryInv, SummaryCurrent, Usable
<1>6. \/ Reads \/ Restart \/ (\E w \in Writers : InvalidateSummaryCache(w))
      \/ UNCHANGED viewVars
      \/ /\ Learn(FALSE) /\ UNCHANGED <<reader, cache>>
         /\ clock' = clock \/ clock' = clock + 1
         /\ version' = version \/ version' = version + 1
  <2>1. CASE \/ \E n \in DOMAIN NodeRows, d \in Delays : StoreNode(n, d)
             \/ \E i \in Items : StoreItem(i)
             \/ NoItems
             \/ \E i \in Items, v \in Verdicts, c \in Credential : SignTarget(i, v, c)
             \/ WritePanelReview
    BY <2>1 DEF StoreNode, StoreItem, NoItems, SignTarget, WritePanelReview, OnlyWrites, Wrote,
                stores
  <2>2. CASE \/ \E w \in Writers : FailWrite(w) \/ Announce(w)
             \/ \E t \in Ticket, c \in Credential : TakeTicket(t, c)
             \/ \E s \in Socket, t \in Ticket : OpenStream(s, t)
             \/ \E s \in Socket : Subscribe(s) \/ SendRefresh(s) \/ CloseStream(s)
             \/ ClockTick
    BY <2>2 DEF FailWrite, Announce, TakeTicket, OpenStream, Subscribe, SendRefresh, CloseStream,
                ClockTick, OnlyStreams, stores
  <2>3. QED
    BY <2>1, <2>2 DEF ViewNext
<1>7. QED
  BY <1>1, <1>2, <1>3, <1>4, <1>5, <1>6

LEMMA InitSummary == ViewInit => SummaryInv
<1>1. SUFFICES ASSUME ViewInit PROVE SummaryInv
  OBVIOUS
<1>2. /\ clock = 0 /\ version = 0 /\ known = 0 /\ cache = NoSummary
      /\ reader = [r \in Reader |-> Waiting]
  BY <1>1 DEF ViewInit
<1>3. \A r \in Reader : reader[r].pc = "idle"
  BY <1>2 DEF Waiting
<1>4. ~Usable(cache, clock) /\ cache \in CacheType
  BY <1>2 DEF Usable, CacheType
<1>5. QED
  BY <1>2, <1>3, <1>4 DEF SummaryInv, SummaryCurrent, ReaderPhase, Building

\* A summary has all that was written before the cache was last cleared or had
\* expired with none under construction, however requests and writers
\* interleave and fail (cached_summary, build_summary, store_summary_cache).
THEOREM SummaryAlwaysCurrent == ViewSpec => []SummaryCurrent
<1>1. ViewInit => SummaryInv
  BY InitSummary
<1>2. SummaryInv /\ [ViewNext]_viewVars => SummaryInv'
  BY SummaryNext
<1>3. SummaryInv => SummaryCurrent
  BY DEF SummaryInv
<1>4. QED
  BY <1>1, <1>2, <1>3, PTL DEF ViewSpec

-----------------------------------------------------------------------------
(* Silent nodes.                                                            *)

\* A message makes its node's row younger or older, and heard never older.
LEMMA StoreNodeHeard ==
    ASSUME NodeInv, NEW n, NEW d \in Delays, StoreNode(n, d)
    PROVE  NodeInv'
<1>1. PICK sent, name, before :
        /\ sent = clock - d /\ name = NodeRows[n]
        /\ before = IF name \in DOMAIN heard THEN {heard[name]} ELSE {}
  OBVIOUS
<1>2. PICK top : top = Max(before \cup {sent})
  OBVIOUS
<1>3. /\ seenAt' = Put(seenAt, n, sent) /\ heard' = Put(heard, name, top)
      /\ d <= clock /\ clock' = clock
  BY <1>1, <1>2 DEF StoreNode, OnlyWrites
<1>4. clock \in Nat /\ d \in Nat /\ sent \in 0..clock
  BY <1>1, <1>3, ConstantFacts DEF NodeInv
<1>5. before \subseteq 0..clock
  BY <1>1 DEF NodeInv
<1>6. (before \cup {sent}) \in SUBSET (0..clock) /\ before \cup {sent} # {}
  BY <1>4, <1>5
<1>7. top \in 0..clock /\ \A y \in before \cup {sent} : top >= y
  BY <1>2, <1>4, <1>6, MaxFacts
<1>8. top >= sent /\ (name \in DOMAIN heard => top >= heard[name])
  BY <1>1, <1>7
<1>9. /\ DOMAIN heard' = DOMAIN heard \cup {name} /\ heard'[name] = top
      /\ \A x \in DOMAIN heard : x # name => heard'[x] = heard[x]
      /\ DOMAIN seenAt' = DOMAIN seenAt \cup {n} /\ seenAt'[n] = sent
      /\ \A x \in DOMAIN seenAt : x # n => seenAt'[x] = seenAt[x]
  BY <1>3 DEF Put
<1>10. ASSUME NEW m \in DOMAIN seenAt'
       PROVE  /\ seenAt'[m] \in 0..clock'
              /\ NodeRows[m] \in DOMAIN heard' /\ seenAt'[m] <= heard'[NodeRows[m]]
  <2>1. CASE m = n
    BY <1>1, <1>3, <1>4, <1>8, <1>9, <2>1
  <2>2. CASE m # n
    <3>1. /\ m \in DOMAIN seenAt /\ seenAt'[m] = seenAt[m] /\ seenAt[m] \in 0..clock
          /\ NodeRows[m] \in DOMAIN heard /\ seenAt[m] <= heard[NodeRows[m]]
          /\ heard[NodeRows[m]] \in 0..clock
      BY <1>9, <2>2 DEF NodeInv
    <3>2. heard'[NodeRows[m]] >= heard[NodeRows[m]] /\ heard'[NodeRows[m]] \in 0..clock
      BY <1>4, <1>7, <1>8, <1>9, <3>1
    <3>3. QED
      BY <1>3, <1>4, <1>9, <3>1, <3>2
  <2>3. QED
    BY <2>1, <2>2
<1>11. \A x \in DOMAIN heard' : heard'[x] \in 0..clock'
  BY <1>3, <1>7, <1>9 DEF NodeInv
<1>12. QED
  BY <1>3, <1>4, <1>10, <1>11 DEF NodeInv

LEMMA NodeStep ==
    ASSUME NodeInv, [ViewNext]_viewVars
    PROVE  NodeInv'
<1>1. \/ \E n \in DOMAIN NodeRows, d \in Delays : StoreNode(n, d)
      \/ /\ UNCHANGED <<seenAt, heard>>
         /\ clock' = clock \/ clock' = clock + 1
  BY DEF ViewNext, viewVars, stores, streams, AskSummary, ReadCounts, StoreSummaryCache, Finish,
         ViewPage, StoreItem, NoItems, SignTarget, WritePanelReview, FailWrite,
         InvalidateSummaryCache, Announce, TakeTicket, OpenStream, Subscribe, SendRefresh,
         CloseStream, Restart, ClockTick, OnlyWrites, OnlyStreams
<1>2. CASE UNCHANGED <<seenAt, heard>> /\ (clock' = clock \/ clock' = clock + 1)
  <2>1. clock' \in Nat /\ \A i \in 0..clock : i \in 0..clock'
    BY <1>2 DEF NodeInv
  <2>2. QED
    BY <1>2, <2>1 DEF NodeInv
<1>3. QED
  BY <1>1, <1>2, StoreNodeHeard

LEMMA InitNodes == ViewInit => NodeInv
<1>1. SUFFICES ASSUME ViewInit PROVE NodeInv
  OBVIOUS
<1>2. /\ clock = 0 /\ seenAt = [n \in LegacyNodes |-> 0]
      /\ heard = [name \in {NodeRows[n] : n \in LegacyNodes} |-> 0]
  BY <1>1 DEF ViewInit
<1>3. QED
  BY <1>2 DEF NodeInv

\* A silent node that is listed is not fresh.
LEMMA SilentNodeStatus ==
    ASSUME NodeInv, NEW name \in ListedNames, Silent(name)
    PROVE  NodeStatus(LatestSeen(name)) \in {"retired", "offline", "stale"}
<1> DEFINE S == {seenAt[n] : n \in {m \in DOMAIN seenAt : NodeRows[m] = name}}
<1>1. S # {} /\ S \in SUBSET (0..clock) /\ clock \in Nat
  BY DEF ListedNames, NodeInv
<1>2. LatestSeen(name) \in S
  BY <1>1, MaxFacts DEF LatestSeen
<1>3. PICK n \in DOMAIN seenAt : NodeRows[n] = name /\ LatestSeen(name) = seenAt[n]
  BY <1>2
<1>4. /\ seenAt[n] \in 0..clock /\ heard[name] \in 0..clock
      /\ seenAt[n] <= heard[name] /\ clock - heard[name] > Freshness
  BY <1>3 DEF NodeInv, Silent
<1>5. clock - LatestSeen(name) > Freshness
  BY <1>1, <1>3, <1>4, ConstantFacts
<1>6. QED
  BY <1>5 DEF NodeStatus

\* A node that has sent nothing for too long makes the summary say so, however
\* its messages were delayed and reordered and whatever older rows have its name
\* (upsert_node, latest_node_rows, build_data_health).
THEOREM SilentNodesAlwaysNoticed == ViewSpec => []SilentNodesNoticed
<1>1. ViewInit => NodeInv
  BY InitNodes
<1>2. NodeInv /\ [ViewNext]_viewVars => NodeInv'
  BY NodeStep
<1>3. NodeInv => SilentNodesNoticed
  <2>1. SUFFICES ASSUME NodeInv, NEW name \in ListedNames, Silent(name)
                 PROVE  Health # "healthy"
    BY DEF SilentNodesNoticed
  <2>2. PICK status : status = NodeStatus(LatestSeen(name))
    OBVIOUS
  <2>3. status \in Statuses /\ status \in {"retired", "offline", "stale"}
    BY <2>1, <2>2, SilentNodeStatus DEF Statuses
  <2>4. QED
    BY <2>3 DEF Health
<1>4. QED
  BY <1>1, <1>2, <1>3, PTL DEF ViewSpec

-----------------------------------------------------------------------------
(* Reviews and pages.                                                       *)

LEMMA ReviewStep ==
    ASSUME ReviewInv, [ViewNext]_viewVars
    PROVE  ReviewInv'
<1>1. CASE \E i \in Items, v \in Verdicts, c \in Credential : SignTarget(i, v, c)
  <2>1. PICK i, v, z :
          /\ z = [pc |-> "write", item |-> i,
                  review |-> [verdict |-> v, signature |-> table'[i], at |-> clock]]
          /\ writer' = [writer EXCEPT !["review"] = z]
          /\ UNCHANGED <<reviews, clock>>
    BY <1>1 DEF SignTarget, OnlyWrites
  <2>2. z.review.at = clock /\ writer'["review"] = z /\ DOMAIN writer' = Writers
    BY <2>1 DEF ReviewInv, Writers
  <2>3. QED
    BY <2>1, <2>2 DEF ReviewInv
<1>2. CASE WritePanelReview
  <2>1. /\ writer["review"].pc = "write"
        /\ reviews' = Put(reviews, writer["review"].item, writer["review"].review)
        /\ writer' = [writer EXCEPT !["review"] = [pc |-> "clear"]] /\ clock' = clock
    BY <1>2 DEF WritePanelReview, OnlyWrites
  <2>2. \A j \in DOMAIN reviews' : reviews'[j].at \in 0..clock
    BY <2>1 DEF ReviewInv, Put
  <2>3. writer'["review"].pc = "clear" /\ DOMAIN writer' = Writers
    BY <2>1 DEF ReviewInv, Writers
  <2>4. QED
    BY <2>1, <2>2, <2>3 DEF ReviewInv
<1>3. CASE /\ UNCHANGED reviews /\ (clock' = clock \/ clock' = clock + 1)
           /\ DOMAIN writer' = Writers
           /\ writer'["review"].pc = "write" => writer'["review"] = writer["review"]
  <2>1. clock' \in Nat /\ \A i \in 0..clock : i \in 0..clock'
    BY <1>3 DEF ReviewInv
  <2>2. QED
    BY <1>3, <2>1 DEF ReviewInv
<1>4. \/ \E i \in Items, v \in Verdicts, c \in Credential : SignTarget(i, v, c)
      \/ WritePanelReview
      \/ /\ UNCHANGED reviews /\ (clock' = clock \/ clock' = clock + 1)
         /\ DOMAIN writer' = Writers
         /\ writer'["review"].pc = "write" => writer'["review"] = writer["review"]
  <2>1. CASE UNCHANGED writer
    <3>1. \/ UNCHANGED reviews /\ (clock' = clock \/ clock' = clock + 1)
          \/ \E i \in Items, v \in Verdicts, c \in Credential : SignTarget(i, v, c)
          \/ WritePanelReview
      BY DEF ViewNext, viewVars, stores, AskSummary, ReadCounts, StoreSummaryCache, Finish,
             ViewPage, StoreNode, StoreItem, NoItems, FailWrite, InvalidateSummaryCache, Announce,
             TakeTicket, OpenStream, Subscribe, SendRefresh, CloseStream, Restart, ClockTick,
             OnlyWrites, OnlyStreams
    <3>2. QED
      BY <2>1, <3>1 DEF ReviewInv
  <2>2. CASE Restart
    <3>1. writer'["review"] = Waiting /\ DOMAIN writer' = Writers /\ UNCHANGED <<reviews, clock>>
      BY <2>2 DEF Restart, Writers, stores
    <3>2. QED
      BY <3>1 DEF Waiting
  <2>3. ASSUME NEW w \in Writers, FailWrite(w) \/ InvalidateSummaryCache(w) \/ Announce(w)
        PROVE  /\ UNCHANGED <<reviews, clock>> /\ DOMAIN writer' = Writers
               /\ writer'["review"].pc = "write" => writer'["review"] = writer["review"]
    <3>1. UNCHANGED <<reviews, clock>>
      BY <2>3 DEF FailWrite, InvalidateSummaryCache, Announce, stores
    <3>2. PICK x : writer' = [writer EXCEPT ![w] = x] /\ x.pc # "write"
      <4>1. CASE FailWrite(w) \/ Announce(w)
        BY <4>1 DEF FailWrite, Announce, Waiting
      <4>2. CASE InvalidateSummaryCache(w)
        <5>1. PICK y : y = [writer[w] EXCEPT !.pc = "announce"]
          OBVIOUS
        <5>2. writer' = [writer EXCEPT ![w] = y] /\ writer[w].pc = "clear"
          BY <4>2, <5>1 DEF InvalidateSummaryCache, To
        <5>3. y.pc # "write"
          BY <5>1, <5>2
        <5>4. QED
          BY <5>2, <5>3
      <4>3. QED
        BY <2>3, <4>1, <4>2
    <3>3. QED
      BY <3>1, <3>2 DEF ReviewInv, Writers
  <2>4. CASE \/ \E n \in DOMAIN NodeRows, d \in Delays : StoreNode(n, d)
             \/ \E i \in Items : StoreItem(i)
             \/ NoItems
    <3>1. UNCHANGED <<reviews, clock>> /\ \E x : writer' = [writer EXCEPT !["ingest"] = x]
      BY <2>4 DEF StoreNode, StoreItem, NoItems, OnlyWrites, stores, To
    <3>2. QED
      BY <3>1 DEF ReviewInv, Writers
  <2>5. QED
    BY <2>1, <2>2, <2>3, <2>4 DEF ViewNext, viewVars, AskSummary, ReadCounts, StoreSummaryCache,
       Finish, ViewPage, TakeTicket, OpenStream, Subscribe, SendRefresh, CloseStream, ClockTick,
       OnlyStreams
<1>5. QED
  BY <1>1, <1>2, <1>3, <1>4

LEMMA InitReviews == ViewInit => ReviewInv
<1>1. SUFFICES ASSUME ViewInit PROVE ReviewInv
  OBVIOUS
<1>2. clock = 0 /\ reviews = << >> /\ writer = [w \in Writers |-> Waiting]
  BY <1>1 DEF ViewInit
<1>3. DOMAIN reviews = {} /\ writer["review"] = Waiting
  BY <1>2 DEF Writers
<1>4. QED
  BY <1>2, <1>3 DEF ReviewInv, Waiting

\* The verdict the panel shows is that of a review with the row's id or signature.
LEMMA VerdictFromReview ==
    ASSUME ReviewInv, NEW i \in DOMAIN table, ShownVerdict(i) = "false_positive"
    PROVE  i \notin Counted(Item[i].type)
<1> DEFINE similar == {j \in DOMAIN reviews :
                         /\ Item[j].type = Item[i].type
                         /\ table[i] # "" /\ reviews[j].signature = table[i]}
           latest == CHOOSE j \in similar : \A k \in similar : reviews[j].at >= reviews[k].at
<1>1. CASE i \in DOMAIN reviews
  BY <1>1 DEF ShownVerdict, FalsePositives, Counted
<1>2. CASE i \notin DOMAIN reviews
  <2>1. similar # {} /\ reviews[latest].verdict = "false_positive"
    BY <1>2 DEF ShownVerdict
  <2>2. PICK T : T = {reviews[j].at : j \in similar}
    OBVIOUS
  <2>3. T \in SUBSET (0..clock) /\ T # {} /\ clock \in Nat
    BY <2>1, <2>2 DEF ReviewInv
  <2>4. PICK x \in T : \A y \in T : x >= y
    BY <2>3, GreatestExists
  <2>5. \E j \in similar : \A k \in similar : reviews[j].at >= reviews[k].at
    BY <2>2, <2>4
  <2>6. latest \in similar
    BY <2>5
  <2> HIDE DEF latest
  <2>7. latest \in FalsePositives(Item[i].type) /\ reviews[latest].signature # ""
        /\ reviews[latest].signature = table[i]
    BY <2>1, <2>6 DEF FalsePositives
  <2>8. QED
    BY <2>7 DEF Counted
<1>3. QED
  BY <1>1, <1>2

\* What a page shows to anybody.
Scoped(keys) ==
    \A k \in DOMAIN keys :
        /\ k \notin {"id", "hostname", "payload", "storage", "review", "backend"}
        /\ k \in {"node_name", "latest_reason", "block_reason", "reason", "title", "summary", "subject",
                  "evidence"} => keys[k] # "raw"

LEMMA PublicResponseScoped ==
    ASSUME NEW page \in Pages
    PROVE  Scoped(Response(page, Public))
<1> DEFINE shown == (Columns(page, Public) \cup ReviewKeys(page, Public))
                    \ (HiddenKeys(Public) \cup HiddenProbeKeys(page, Public))
<1>1. Public # Private
  BY DEF Public, Private
<1>2. /\ DOMAIN Response(page, Public) = shown
      /\ \A k \in shown : Response(page, Public)[k] =
           IF ShouldRedact(page, Public) /\ k \in Columns(page, Public) THEN Redacted(k) ELSE "raw"
  BY DEF Response
<1>3. ASSUME NEW k \in shown
      PROVE  /\ k \notin {"id", "hostname", "payload", "storage", "review", "backend"}
             /\ k \in {"node_name", "latest_reason", "block_reason", "reason", "title", "summary",
                       "subject", "evidence"} =>
                  ShouldRedact(page, Public) /\ k \in Columns(page, Public)
  <2>1. ReviewKeys(page, Public) \subseteq {"review_verdict", "status"}
    BY <1>1 DEF ReviewKeys
  <2>2. {"id", "hostname", "payload", "storage", "review", "backend"} \subseteq HiddenKeys(Public)
    BY <1>1 DEF HiddenKeys
  <2>3. CASE page # "probe_sources"
    BY <1>1, <1>3, <2>1, <2>2, <2>3 DEF ShouldRedact
  <2>4. CASE page = "probe_sources"
    <3>1. Columns(page, Public) = ProbeSourceColumns
      BY <2>4 DEF Columns
    <3>2. HiddenProbeKeys(page, Public)
            = {"node_name", "network_prefix", "latest_reason", "block_reason", "first_seen"}
      BY <2>4 DEF HiddenProbeKeys
    <3>3. k \notin {"node_name", "latest_reason", "block_reason"}
      BY <1>3, <3>2
    <3>4. k \notin {"reason", "title", "summary", "subject", "evidence"}
      BY <1>3, <2>1, <3>1 DEF ProbeSourceColumns
    <3>5. QED
      BY <1>3, <2>2, <3>3, <3>4
  <2>5. QED
    BY <2>3, <2>4
<1>4. \A k : Redacted(k) # "raw"
  BY DEF Redacted, PublicNodeName, RedactIpText
<1>5. QED
  BY <1>2, <1>3, <1>4 DEF Scoped

\* The pages: what was shown is scoped to the role of the reader.
PageInv ==
    /\ DOMAIN reader = Reader
    /\ \A r \in Reader : reader[r].pc = "shown" /\ reader[r].role = Public => Scoped(reader[r].keys)

LEMMA PageStep ==
    ASSUME PageInv, SummaryInv, [ViewNext]_viewVars
    PROVE  PageInv'
<1>1. ASSUME NEW r \in Reader, NEW x, reader' = [reader EXCEPT ![r] = x],
             x.pc = "shown" /\ x.role = Public => Scoped(x.keys)
      PROVE  PageInv'
  <2>1. DOMAIN reader' = Reader /\ reader'[r] = x
        /\ \A z \in Reader \ {r} : reader'[z] = reader[z]
    BY <1>1 DEF PageInv
  <2>2. QED
    BY <1>1, <2>1 DEF PageInv
<1>2. ASSUME NEW r \in Reader, NEW c \in Credential, NEW page \in Pages, ViewPage(r, page, c)
      PROVE  PageInv'
  <2>1. PICK role : role = ResolveRole(conf, c)
    OBVIOUS
  <2>2. PICK x : x = [pc |-> "shown", role |-> role, page |-> page, keys |-> Response(page, role)]
    OBVIOUS
  <2>3. reader' = [reader EXCEPT ![r] = x]
    BY <1>2, <2>1, <2>2 DEF ViewPage
  <2>4. x.role = role /\ x.keys = Response(page, role)
    BY <2>2
  <2>5. QED
    BY <1>1, <2>3, <2>4, PublicResponseScoped
<1>3. ASSUME NEW r \in Reader, NEW c \in Credential, AskSummary(r, c)
      PROVE  PageInv'
  <2>1. \E x : reader' = [reader EXCEPT ![r] = x] /\ x.pc # "shown"
    BY <1>3 DEF AskSummary, Answer
  <2>2. QED
    BY <1>1, <2>1
<1>4. ASSUME NEW r \in Reader, ReadCounts(r) \/ StoreSummaryCache(r) \/ Finish(r)
      PROVE  PageInv'
  <2>1. CASE ReadCounts(r)
    <3>1. PICK x : x = [reader[r] EXCEPT !.pc = "store"]
      OBVIOUS
    <3>2. reader' = [reader EXCEPT ![r] = x] /\ reader[r].pc = "counts"
      BY <2>1, <3>1 DEF ReadCounts
    <3>3. reader[r] \in SummaryReader
      BY <3>2 DEF SummaryInv
    <3>4. x.pc = "store"
      BY <3>1, <3>3 DEF SummaryReader
    <3>5. QED
      BY <1>1, <3>2, <3>4
  <2>2. CASE StoreSummaryCache(r)
    <3>1. PICK x : x = [pc |-> "answered", seen |-> reader[r].seen, since |-> reader[r].since]
      OBVIOUS
    <3>2. reader' = [reader EXCEPT ![r] = x]
      BY <2>2, <3>1 DEF StoreSummaryCache, Answer
    <3>3. x.pc = "answered"
      BY <3>1
    <3>4. QED
      BY <1>1, <3>2, <3>3
  <2>3. CASE Finish(r)
    BY <1>1, <2>3 DEF Finish, Waiting
  <2>4. QED
    BY <1>4, <2>1, <2>2, <2>3
<1>5. CASE Restart
  BY <1>5 DEF Restart, PageInv, Waiting
<1>6. CASE UNCHANGED reader
  BY <1>6 DEF PageInv
<1>7. \/ UNCHANGED reader \/ Restart
      \/ \E r \in Reader : \/ \E c \in Credential : AskSummary(r, c)
                           \/ ReadCounts(r) \/ StoreSummaryCache(r) \/ Finish(r)
                           \/ \E c \in Credential, page \in Pages : ViewPage(r, page, c)
  BY DEF ViewNext, viewVars, StoreNode, StoreItem, NoItems, SignTarget, WritePanelReview, FailWrite,
         InvalidateSummaryCache, Announce, TakeTicket, OpenStream, Subscribe, SendRefresh,
         CloseStream, ClockTick, OnlyWrites, OnlyStreams
<1>8. QED
  BY <1>2, <1>3, <1>4, <1>5, <1>6, <1>7

\* What a page or the summary leaves out, by review or by role, stays out: a row
\* shown as a false positive is in no count, and what anybody may read names no
\* host and quotes no log (attach_panel_reviews, review_not_false_positive_filter,
\* scope_panel_value).
THEOREM RowsAlwaysShownRightly == ViewSpec => []RowsShownRightly
<1> DEFINE Inv == ReviewInv /\ SummaryInv /\ PageInv
<1>1. ViewInit => Inv
  <2>1. ViewInit => PageInv
    <3>1. SUFFICES ASSUME ViewInit PROVE PageInv
      OBVIOUS
    <3>2. reader = [r \in Reader |-> Waiting]
      BY <3>1 DEF ViewInit
    <3>3. Waiting.pc = "idle"
      BY DEF Waiting
    <3>4. QED
      BY <3>2, <3>3 DEF PageInv
  <2>2. QED
    BY <2>1, InitReviews, InitSummary
<1>2. Inv /\ [ViewNext]_viewVars => Inv'
  BY ReviewStep, SummaryNext, PageStep
<1>3. Inv => RowsShownRightly
  BY VerdictFromReview DEF RowsShownRightly, FalsePositivesHidden, PublicRowsScoped, PageInv, Scoped
<1>4. QED
  BY <1>1, <1>2, <1>3, PTL DEF ViewSpec
=============================================================================
