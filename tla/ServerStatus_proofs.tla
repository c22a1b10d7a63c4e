------------------------ MODULE ServerStatus_proofs ------------------------
(***************************************************************************)
(* For any number of servers, files, requests and incidents: a server      *)
(* whose row says SYNCED has the files of one synchronisation and has      *)
(* loaded them.                                                            *)
(***************************************************************************)
EXTENDS ServerSync_proofs

-----------------------------------------------------------------------------
(* The text of a configuration. *)

LEMMA Marks ==
    "begin" \in Token /\ "begin" \notin Lines /\ "include" \in Token /\ "include" \notin Lines
    /\ "end" \in Token /\ "end" \notin Lines
  BY ServerSyncAssumption DEF Token

LEMMA TextLength ==
    ASSUME NEW t \in Text
    PROVE  Len(t) \in Nat /\ DOMAIN t = 1..Len(t) /\ t \in Seq(Token)
  BY DEF Text

LEMMA OneInclude ==
    ASSUME NEW t \in Text, OneBlock(t)
    PROVE  Includes(t) = 1
<1>1. PICK p \in DOMAIN t : BlockAt(t, p)
  BY DEF OneBlock
<1>2. p \in Nat /\ p + 1 \in DOMAIN t
  BY <1>1, TextLength DEF BlockAt
<1>3. \A k \in DOMAIN t : t[k] = "include" => k = p + 1
  BY <1>1, Marks DEF BlockAt
<1>4. Positions(t, "include") = {p + 1}
  BY <1>1, <1>2, <1>3 DEF Positions, BlockAt
<1> QED
  BY <1>4, FS_Singleton DEF Includes

LEMMA EmptyPlain == Plain(<<>>)
  BY DEF Plain

\* A new block after lines that people wrote is the only one.
LEMMA BlockAdded ==
    ASSUME NEW t \in Text, Plain(t)
    PROVE  OneBlock(t \o <<"begin", "include", "end">>)
<1> DEFINE block == <<"begin", "include", "end">>
<1>1. block \in Seq(Token) /\ Len(block) = 3
  BY Marks
<1>2. block[1] = "begin" /\ block[2] = "include" /\ block[3] = "end"
  OBVIOUS
<1> HIDE DEF block
<1>3. PICK u : u = t \o block
  OBVIOUS
<1>4. /\ u \in Seq(Token) /\ Len(u) = Len(t) + 3
      /\ \A j \in 1..(Len(t) + 3) : u[j] = IF j <= Len(t) THEN t[j] ELSE block[j - Len(t)]
  <2>1. t \in Seq(Token)
    BY TextLength
  <2>2. /\ u \in Seq(Token) /\ Len(u) = Len(t) + Len(block)
        /\ \A j \in 1..(Len(t) + Len(block)) :
             u[j] = IF j <= Len(t) THEN t[j] ELSE block[j - Len(t)]
    BY <1>1, <1>3, <2>1, ConcatProperties, Zenon
  <2> QED
    BY <1>1, <2>2
<1>5. Len(t) \in Nat /\ DOMAIN t = 1..Len(t) /\ DOMAIN u = 1..(Len(t) + 3)
  BY <1>4, TextLength
<1> DEFINE p == Len(t) + 1
<1>6. p \in DOMAIN u /\ p + 1 \in DOMAIN u /\ p + 2 \in DOMAIN u
  BY <1>5
<1>7. u[p] = "begin" /\ u[p + 1] = "include" /\ u[p + 2] = "end"
  <2>1. /\ p - Len(t) = 1 /\ ~(p <= Len(t))
        /\ (p + 1) - Len(t) = 2 /\ ~(p + 1 <= Len(t))
        /\ (p + 2) - Len(t) = 3 /\ ~(p + 2 <= Len(t))
    BY <1>5
  <2> QED
    BY <1>2, <1>4, <1>5, <1>6, <2>1
<1>8. \A k \in DOMAIN u \ {p, p + 1, p + 2} : u[k] \in Lines
  <2> SUFFICES ASSUME NEW k \in DOMAIN u \ {p, p + 1, p + 2}
               PROVE  u[k] \in Lines
    OBVIOUS
  <2>1. k <= Len(t) /\ k \in DOMAIN t
    BY <1>5
  <2> QED
    BY <1>4, <1>5, <2>1 DEF Plain
<1> HIDE DEF p
<1> QED
  BY <1>3, <1>6, <1>7, <1>8 DEF OneBlock, BlockAt, block

\* A line added by hand moves no mark.
LEMMA LineAdded ==
    ASSUME NEW t \in Text, NEW line \in Lines
    PROVE  LET u == Append(t, line) IN
           /\ Plain(t) => Plain(u)
           /\ OneBlock(t) => OneBlock(u)
           /\ Includes(u) = Includes(t)
<1>1. PICK u : u = Append(t, line)
  OBVIOUS
<1>2. line \in Token
  BY DEF Token
<1>3. /\ u \in Seq(Token) /\ Len(u) = Len(t) + 1
      /\ \A j \in 1..Len(t) : u[j] = t[j]
      /\ u[Len(t) + 1] = line
  BY <1>1, <1>2, TextLength, AppendProperties
<1>4. Len(t) \in Nat /\ DOMAIN t = 1..Len(t) /\ DOMAIN u = 1..(Len(t) + 1)
  BY <1>3, TextLength
<1>5. \A k \in DOMAIN u : u[k] = line \/ (k \in DOMAIN t /\ u[k] = t[k])
  <2> SUFFICES ASSUME NEW k \in DOMAIN u
               PROVE  u[k] = line \/ (k \in DOMAIN t /\ u[k] = t[k])
    OBVIOUS
  <2>1. k = Len(t) + 1 \/ k \in 1..Len(t)
    BY <1>4
  <2> QED
    BY <1>3, <1>4, <2>1
<1>6. \A k \in DOMAIN t : k \in DOMAIN u /\ u[k] = t[k]
  BY <1>3, <1>4
<1>7. Plain(t) => Plain(u)
  BY <1>5 DEF Plain
<1>8. ASSUME OneBlock(t) PROVE OneBlock(u)
  <2>1. PICK p \in DOMAIN t : BlockAt(t, p)
    BY <1>8 DEF OneBlock
  <2>2. p + 1 \in DOMAIN t /\ p + 2 \in DOMAIN t
    BY <1>4, <2>1 DEF BlockAt
  <2>3. \A k \in DOMAIN u \ {p, p + 1, p + 2} : u[k] \in Lines
    BY <1>5, <2>1 DEF BlockAt
  <2> QED
    BY <1>6, <2>1, <2>2, <2>3 DEF BlockAt, OneBlock
<1>9. Positions(u, "include") = Positions(t, "include")
  <2>1. line # "include"
    BY Marks
  <2> QED
    BY <1>5, <1>6, <2>1 DEF Positions
<1> QED
  BY <1>1, <1>7, <1>8, <1>9 DEF Includes

LEMMA PlainJoined ==
    ASSUME NEW a \in Text, NEW b \in Text, Plain(a), Plain(b)
    PROVE  Plain(a \o b)
<1>1. PICK u : u = a \o b
  OBVIOUS
<1>2. /\ u \in Seq(Token) /\ Len(u) = Len(a) + Len(b)
      /\ \A j \in 1..(Len(a) + Len(b)) : u[j] = IF j <= Len(a) THEN a[j] ELSE b[j - Len(a)]
  BY <1>1, TextLength, ConcatProperties
<1>3. /\ Len(a) \in Nat /\ DOMAIN a = 1..Len(a)
      /\ Len(b) \in Nat /\ DOMAIN b = 1..Len(b) /\ DOMAIN u = 1..(Len(a) + Len(b))
  BY <1>2, TextLength
<1>4. ASSUME NEW k \in DOMAIN u PROVE u[k] \in Lines
  <2>1. CASE k <= Len(a)
    <3>1. k \in DOMAIN a
      BY <1>3, <2>1
    <3> QED
      BY <1>2, <1>3, <2>1, <3>1 DEF Plain
  <2>2. CASE ~(k <= Len(a))
    <3>1. k - Len(a) \in DOMAIN b
      BY <1>3, <2>2
    <3> QED
      BY <1>2, <1>3, <2>2, <3>1 DEF Plain
  <2> QED
    BY <2>1, <2>2
<1> QED
  BY <1>1, <1>4 DEF Plain

LEMMA PlainPiece ==
    ASSUME NEW t \in Text, NEW m \in Int, NEW n \in Int, 1 <= m, n <= Len(t),
           \A k \in m..n : t[k] \in Lines
    PROVE  SubSeq(t, m, n) \in Text /\ Plain(SubSeq(t, m, n))
<1>1. PICK u : u = SubSeq(t, m, n)
  OBVIOUS
<1>2. /\ u \in Seq(Lines) /\ Len(u) = IF m <= n THEN n - m + 1 ELSE 0
      /\ \A j \in 1..(n - m + 1) : u[j] = t[m + j - 1]
  BY <1>1, SubSeqProperties
<1>3. Plain(u)
  BY <1>2 DEF Plain
<1>4. u \in Text
  BY <1>2 DEF Text, Token
<1> QED
  BY <1>1, <1>3, <1>4

\* What remains after the block is taken out has no mark, so that the new block
\* is the only one.
LEMMA StrippedPlain ==
    ASSUME NEW t \in Text, Plain(t) \/ OneBlock(t), NEW u \in Stripped(t)
    PROVE  Plain(u)
<1>1. CASE Plain(t)
  <2>1. Block(t) = {}
    BY <1>1, Marks DEF Block, Plain
  <2> QED
    BY <1>1, <2>1 DEF Stripped
<1>2. CASE OneBlock(t)
  <2>1. PICK p \in DOMAIN t : BlockAt(t, p)
    BY <1>2 DEF OneBlock
  <2>2. /\ Len(t) \in Nat /\ DOMAIN t = 1..Len(t) /\ p \in Nat /\ 1 <= p
        /\ p + 2 \in 1..Len(t) /\ p + 1 \in 1..Len(t)
    BY <2>1, TextLength DEF BlockAt
  <2>3. Positions(t, "begin") = {p} /\ Positions(t, "end") = {p + 2}
    <3>1. \A k \in DOMAIN t : t[k] = "begin" => k = p
      BY <2>1, Marks DEF BlockAt
    <3>2. \A k \in DOMAIN t : t[k] = "end" => k = p + 2
      BY <2>1, Marks DEF BlockAt
    <3> QED
      BY <2>1, <3>1, <3>2 DEF Positions, BlockAt
  <2>4. <<p, p + 2>> \in Block(t)
    BY <2>1, <2>2, <2>3 DEF Block, BlockAt
  <2>5. \A x \in Block(t) : x[1] = p /\ x[2] = p + 2
    BY <2>3 DEF Block, Positions
  <2>6. PICK x \in Block(t) :
          u = SubSeq(t, 1, x[1] - 1) \o SubSeq(t, x[2] + 1, Len(t))
    BY <2>4 DEF Stripped
  <2>7. u = SubSeq(t, 1, p - 1) \o SubSeq(t, p + 3, Len(t))
    <3>1. (p + 2) + 1 = p + 3
      BY <2>2
    <3> QED
      BY <2>5, <2>6, <3>1
  <2>8. \A k \in 1..(p - 1) : t[k] \in Lines
    BY <2>1, <2>2 DEF BlockAt
  <2>9. \A k \in (p + 3)..Len(t) : t[k] \in Lines
    BY <2>1, <2>2 DEF BlockAt
  <2>10. SubSeq(t, 1, p - 1) \in Text /\ Plain(SubSeq(t, 1, p - 1))
    BY <2>2, <2>8, PlainPiece
  <2>11. SubSeq(t, p + 3, Len(t)) \in Text /\ Plain(SubSeq(t, p + 3, Len(t)))
    BY <2>2, <2>9, PlainPiece
  <2> QED
    BY <2>7, <2>10, <2>11, PlainJoined
<1> QED
  BY <1>1, <1>2

-----------------------------------------------------------------------------
(* Where a request is in its loops. *)

\* A command that ends puts one file behind the request, and no other.
LEMMA OneFilePast ==
    ASSUME NEW x \in Sync, x.at \in Working, NEW n \in 1..3, NEW i \in Files,
           Past(AfterCommand(x), n, i)
    PROVE  Past(x, n, i) \/ (Stage(x) = n /\ i = x.file)
<1> DEFINE y == AfterCommand(x)
<1>1. x.file \in Files /\ FileCount \in Nat \ {0} /\ i \in 1..FileCount
  BY ServerSyncAssumption DEF Sync, Files
<1>2. Stage(x) \in 1..3
  BY DEF Stage, Working
<1>3. CASE x.file = FileCount
  <2>1. y.at = Following(x.at) /\ y.file = 1
    BY <1>3 DEF AfterCommand, Sync
  <2>2. Stage(y) = Stage(x) + 1 \/ Stage(y) = 0
    BY <2>1 DEF Stage, Following, Repeated, Working
  <2>3. Stage(y) > n \/ (Stage(y) = n /\ i < 1)
    BY <2>1 DEF Past
  <2>4. Stage(x) > n \/ Stage(x) = n
    BY <1>1, <1>2, <2>2, <2>3
  <2>5. i < x.file \/ i = x.file
    BY <1>1, <1>3
  <2> QED
    BY <2>4, <2>5 DEF Past
<1>4. CASE x.file # FileCount
  <2>1. y.at = Repeated(x.at) /\ y.file = x.file + 1
    BY <1>4 DEF AfterCommand, Sync
  <2>2. Stage(y) = Stage(x)
    BY <2>1 DEF Stage, Repeated, Working
  <2>3. Stage(x) > n \/ (Stage(x) = n /\ i < x.file + 1)
    BY <2>1, <2>2 DEF Past
  <2>4. i < x.file + 1 => i < x.file \/ i = x.file
    BY <1>1 DEF Files
  <2> QED
    BY <2>3, <2>4 DEF Past
<1> QED
  BY <1>3, <1>4

LEMMA SamePast ==
    ASSUME NEW x, NEW y, Stage(y) = Stage(x), y.file = x.file, NEW n, NEW i
    PROVE  Past(y, n, i) <=> Past(x, n, i)
  BY DEF Past

\* Between two commands nothing is half written.
LEMMA AfterCommandBetween ==
    ASSUME NEW x \in Sync, x.at \in Working, NEW m, NEW p
    PROVE  Between(AfterCommand(x), m, p)
<1>1. Repeated(x.at) \in {"open", "read", "reload"}
  BY DEF Repeated
<1>2. Following(x.at) \in {"read", "reload", "report"}
  BY DEF Following, Repeated
<1>3. AfterCommand(x).at \in {"open", "read", "reload", "report"}
  BY <1>1, <1>2 DEF AfterCommand, Sync
<1> QED
  BY <1>3 DEF Between

-----------------------------------------------------------------------------
(* The steps of a request on its host. *)

LEMMA LoadedParts ==
    LoadedInv <=> /\ ShapeInv /\ ParentInv /\ ProgressInv
                  /\ KnownInv /\ UniqueInv /\ DoneInv /\ SyncedInv
  BY DEF LoadedInv

\* A host whose files and what is loaded of them stay is as loaded as it was.
LEMMA LoadedStays ==
    ASSUME NEW h, managed'[h] = managed[h], parent'[h] = parent[h], loaded'[h] = loaded[h],
           Loaded(h)
    PROVE  Loaded(h)'
  BY DEF Loaded

LEMMA BusyIs ==
    ASSUME ServerSyncInv, ShapeInv, NEW h \in Hosts
    PROVE  Busy(h) <=> \E r \in Requests : \/ WorksOn(r, h)
                                           \/ Begun(r) /\ \E d \in sync[r].done : d.row.host = h
<1>1. ASSUME NEW r \in Requests
      PROVE  /\ WorksOn(r, h) <=> sync[r].row # None /\ Host(r) = h
             /\ WorksOn(r, h) => Begun(r)
  <2>1. Placed(sync[r])
    BY InvParts DEF SyncsInv
  <2> QED
    BY <2>1 DEF ShapeInv, WorksOn, Placed, Begun, Working
<1> QED
  BY <1>1 DEF Busy, Touched

\* What a request at h leaves as it is: the rows, the other hosts, and what the
\* requests have read and done.
HostStep(r, x) ==
    /\ Becomes(r, x)
    /\ x.row = sync[r].row /\ x.rows = sync[r].rows /\ x.done = sync[r].done
    /\ x.all = sync[r].all
    /\ x.at \in Working \cup {"report"}
    /\ server' = server /\ shared' = shared /\ unseen \subseteq unseen'
    /\ \A h \in Hosts \ {Host(r)} :
         managed'[h] = managed[h] /\ parent'[h] = parent[h] /\ loaded'[h] = loaded[h]

LEMMA HostStepKeeps ==
    ASSUME ServerSyncInv, LoadedInv, ServerSyncInv',
           NEW r \in Requests, sync[r].at \in Working, NEW x \in Sync, HostStep(r, x),
           NEW h \in Hosts, h = Host(r),
           h \in Trusted' => /\ \A i \in Files : Plain(parent'[h][i]) \/ OneBlock(parent'[h][i])
                             /\ Progress(r, x, managed'[h], parent'[h], loaded'[h])
                             /\ Between(x, managed'[h], parent'[h])
    PROVE  LoadedInv'
<1>1. WorksOn(r, h) /\ Trusted' \subseteq Trusted /\ Trusted \subseteq Hosts
  BY InvParts, Placement DEF HostStep, Trusted
<1>2. sync' = [sync EXCEPT ![r] = x] /\ sync \in [Requests -> Sync]
  BY InvParts DEF HostStep, Becomes, ServerSyncTypeOK
<1>3. \A q \in Requests : /\ sync'[q].row = sync[q].row /\ sync'[q].rows = sync[q].rows
                          /\ sync'[q].done = sync[q].done /\ sync'[q].all = sync[q].all
                          /\ q # r => sync'[q] = sync[q]
  BY <1>2 DEF HostStep
<1>4. \A q \in Requests, g \in Hosts : WorksOn(q, g)' <=> WorksOn(q, g)
  BY <1>1, <1>2, <1>3 DEF WorksOn, Host, HostStep
<1>5. ShapeInv'
  BY <1>2, <1>3, LoadedParts DEF ShapeInv, HostStep
<1>6. ParentInv'
  BY <1>1, LoadedParts DEF ParentInv, HostStep
<1>7. ProgressInv'
  <2> SUFFICES ASSUME NEW q \in Requests, NEW g \in Trusted', WorksOn(q, g)'
               PROVE  /\ Progress(q, sync'[q], managed'[g], parent'[g], loaded'[g])
                      /\ Between(sync'[q], managed'[g], parent'[g])
    BY DEF ProgressInv
  <2>1. g \in Trusted /\ g \in Hosts /\ WorksOn(q, g)
    BY <1>1, <1>4
  <2>2. CASE q = r
    <3>1. g = h /\ sync'[q] = x
      BY <1>2, <2>1, <2>2 DEF WorksOn
    <3> QED
      BY <2>2, <3>1
  <2>3. CASE q # r
    <3>1. g # h
      BY <1>1, <2>1, <2>3, InvParts DEF AloneInv, Trusted
    <3>2. managed'[g] = managed[g] /\ parent'[g] = parent[g] /\ loaded'[g] = loaded[g]
      BY <2>1, <3>1 DEF HostStep
    <3> QED
      BY <1>3, <2>1, <2>3, <3>2, LoadedParts DEF ProgressInv
  <2> QED
    BY <2>2, <2>3
<1>8. KnownInv'
  <2>1. \A y : Known(y) => Known(y)'
    BY DEF Known, LiveServer, HostStep
  <2> QED
    BY <1>3, <2>1, LoadedParts DEF KnownInv
<1>9. UniqueInv'
  BY LoadedParts DEF UniqueInv, LiveServer, HostStep
<1>10. DoneInv'
  <2> SUFFICES ASSUME NEW q \in Requests, NEW d \in sync'[q].done,
                      d.ok, d.row.host \in Trusted'
               PROVE  Loaded(d.row.host)' \/ \E p \in Requests : WorksOn(p, d.row.host)'
    BY DEF DoneInv
  <2>1. /\ d \in sync[q].done /\ d.row.host \in Trusted /\ d.row.host \in Hosts
        /\ Loaded(d.row.host) \/ \E p \in Requests : WorksOn(p, d.row.host)
    BY <1>1, <1>3, LoadedParts DEF DoneInv
  <2>2. CASE d.row.host = h
    BY <1>1, <1>4, <2>2
  <2>3. CASE d.row.host # h
    <3>1. Loaded(d.row.host) => Loaded(d.row.host)'
      BY <2>1, <2>3, LoadedStays DEF HostStep
    <3> QED
      BY <1>4, <2>1, <3>1
  <2> QED
    BY <2>2, <2>3
<1>11. \A g \in Hosts : Busy(g) => Busy(g)'
  <2> SUFFICES ASSUME NEW g \in Hosts, Busy(g)
               PROVE  Busy(g)'
    OBVIOUS
  <2>1. PICK q \in Requests : Begun(q) /\ g \in Touched(q)
    BY DEF Busy
  <2>2. Begun(q) => Begun(q)'
    BY <1>2 DEF Begun, HostStep, Working
  <2>3. Touched(q)' = Touched(q)
    BY <1>3 DEF Touched, Host
  <2> QED
    BY <2>1, <2>2, <2>3 DEF Busy
<1>12. SyncedInv'
  <2> SUFFICES ASSUME NEW s \in Servers, LiveServer(s), server[s].status = "SYNCED",
                      NEW g \in Trusted', g = server[s].host
               PROVE  Loaded(g)' \/ Busy(g)'
    BY DEF SyncedInv, LiveServer, HostStep
  <2>1. g \in Trusted /\ g \in Hosts /\ (Loaded(g) \/ Busy(g))
    BY <1>1, LoadedParts DEF SyncedInv
  <2>2. CASE g = h
    <3>1. Busy(h)
      BY <1>1, BusyIs, LoadedParts
    <3> QED
      BY <1>11, <2>2, <3>1
  <2>3. CASE g # h
    <3>1. Loaded(g) => Loaded(g)'
      BY <2>1, <2>3, LoadedStays DEF HostStep
    <3> QED
      BY <1>11, <2>1, <3>1
  <2> QED
    BY <2>2, <2>3
<1> QED
  BY <1>5, <1>6, <1>7, <1>8, <1>9, <1>10, <1>12 DEF LoadedInv

LEMMA Here ==
    ASSUME ServerSyncInv, LoadedInv, NEW r \in Requests, sync[r].at \in Working,
           NEW h \in Trusted, h = Host(r)
    PROVE  /\ \A i \in Files : Plain(parent[h][i]) \/ OneBlock(parent[h][i])
           /\ Progress(r, sync[r], managed[h], parent[h], loaded[h])
           /\ Between(sync[r], managed[h], parent[h])
<1>1. WorksOn(r, h)
  BY InvParts, Placement
<1> QED
  BY <1>1, LoadedParts DEF ParentInv, ProgressInv

LEMMA OpenLoads ==
    ASSUME ServerSyncInv, LoadedInv, ServerSyncInv', NEW r \in Requests, Open(r)
    PROVE  LoadedInv'
<1>1. sync[r].at = "open" /\ sync[r].at \in Working
  BY DEF Open, At, Working
<1>2. sync[r] \in Sync /\ Host(r) \in Hosts /\ sync[r].file \in Files
  BY <1>1, InvParts, Placement
<1> PICK h \in Hosts : h = Host(r)
  BY <1>2
<1> PICK i \in Files : i = sync[r].file
  BY <1>2
<1> DEFINE x == [sync[r] EXCEPT !.at = "write"]
<1>3. /\ x \in Sync /\ x.at = "write" /\ x.file = i /\ x.row = sync[r].row
      /\ x.rows = sync[r].rows /\ x.done = sync[r].done /\ x.all = sync[r].all
  BY <1>2 DEF Sync, Step, Working
<1>4. /\ Becomes(r, x) /\ managed' = [managed EXCEPT ![h][i] = "empty"]
      /\ UNCHANGED <<server, parent, backups, loaded, incidents, history>>
  BY DEF Open
<1> HIDE DEF x
<1>5. /\ managed'[h][i] = "empty"
      /\ \A j \in Files : j # i => managed'[h][j] = managed[h][j]
      /\ \A g \in Hosts \ {h} : managed'[g] = managed[g]
  BY <1>4, InvParts DEF ServerSyncTypeOK
<1>6. HostStep(r, x)
  BY <1>3, <1>4, <1>5 DEF HostStep, history, Working
<1>7. ASSUME h \in Trusted
      PROVE  /\ \A j \in Files : Plain(parent'[h][j]) \/ OneBlock(parent'[h][j])
             /\ Progress(r, x, managed'[h], parent'[h], loaded'[h])
             /\ Between(x, managed'[h], parent'[h])
  <2>1. /\ \A j \in Files : Plain(parent[h][j]) \/ OneBlock(parent[h][j])
        /\ Progress(r, sync[r], managed[h], parent[h], loaded[h])
    BY <1>1, <1>7, Here
  <2>2. Stage(x) = 1 /\ Stage(sync[r]) = 1
    BY <1>1, <1>3 DEF Stage
  <2>3. \A n \in 1..3, j \in Files : Past(x, n, j) => Past(sync[r], n, j)
    BY <1>3, <2>2, SamePast
  <2>4. \A j \in Files : Past(x, 1, j) => j # i
    BY <1>3, <2>2 DEF Past, Files
  <2>5. Progress(r, x, managed'[h], parent'[h], loaded'[h])
    BY <1>4, <1>5, <2>1, <2>3, <2>4 DEF Progress
  <2>6. Between(x, managed'[h], parent'[h])
    BY <1>3, <1>5 DEF Between
  <2> QED
    BY <1>4, <2>1, <2>5, <2>6
<1>8. h \in Trusted' => h \in Trusted
  BY <1>4 DEF Trusted, history
<1> QED
  BY <1>1, <1>3, <1>6, <1>7, <1>8, HostStepKeeps

LEMMA AfterCommandAll ==
    ASSUME NEW x \in Sync
    PROVE  AfterCommand(x).all = x.all
  BY DEF AfterCommand, Sync

\* Nobody else works on a trusted host, so the file that is written is still empty.
LEMMA WriteLoads ==
    ASSUME ServerSyncInv, LoadedInv, ServerSyncInv', NEW r \in Requests, Write(r)
    PROVE  LoadedInv'
<1>1. sync[r].at = "write" /\ sync[r].at \in Working
  BY DEF Write, At, Working
<1>2. sync[r] \in Sync /\ Host(r) \in Hosts /\ sync[r].file \in Files
  BY <1>1, InvParts, Placement
<1> PICK h \in Hosts : h = Host(r)
  BY <1>2
<1> PICK i \in Files : i = sync[r].file
  BY <1>2
<1> DEFINE x == AfterCommand(sync[r])
<1>3. /\ x \in Sync /\ x.at \in Working \cup {"report"} /\ x.row = sync[r].row
      /\ x.rows = sync[r].rows /\ x.done = sync[r].done /\ x.all = sync[r].all
  BY <1>1, <1>2, AfterCommandTypes, AfterCommandAll
<1>4. PICK content \in {r} \cup (IF managed[h][i] = "empty" THEN {} ELSE {"mixed"}) :
        managed' = [managed EXCEPT ![h][i] = content]
  BY DEF Write
<1>5. /\ Becomes(r, x)
      /\ UNCHANGED <<server, parent, backups, loaded, incidents, history>>
  BY DEF Write
<1>6. /\ managed'[h][i] = content
      /\ \A j \in Files : j # i => managed'[h][j] = managed[h][j]
      /\ \A g \in Hosts \ {h} : managed'[g] = managed[g]
  BY <1>4, InvParts DEF ServerSyncTypeOK
<1>7. \A n \in 1..3, j \in Files :
        Past(x, n, j) => Past(sync[r], n, j) \/ (Stage(sync[r]) = n /\ j = i)
  BY <1>1, <1>2, OneFilePast
<1>8. \A m, p : Between(x, m, p)
  BY <1>1, <1>2, AfterCommandBetween
<1> HIDE DEF x
<1>9. HostStep(r, x)
  BY <1>3, <1>5, <1>6 DEF HostStep, history
<1>10. ASSUME h \in Trusted
       PROVE  /\ \A j \in Files : Plain(parent'[h][j]) \/ OneBlock(parent'[h][j])
              /\ Progress(r, x, managed'[h], parent'[h], loaded'[h])
              /\ Between(x, managed'[h], parent'[h])
  <2>1. /\ \A j \in Files : Plain(parent[h][j]) \/ OneBlock(parent[h][j])
        /\ Progress(r, sync[r], managed[h], parent[h], loaded[h])
        /\ Between(sync[r], managed[h], parent[h])
    BY <1>1, <1>10, Here
  <2>2. content = r
    BY <1>1, <1>4, <2>1 DEF Between
  <2>3. Stage(sync[r]) = 1
    BY <1>1 DEF Stage
  <2>4. \A j \in Files : /\ Past(x, 1, j) => j = i \/ Past(sync[r], 1, j)
                         /\ Past(x, 2, j) => Past(sync[r], 2, j)
                         /\ Past(x, 3, j) => Past(sync[r], 3, j)
    BY <1>7, <2>3
  <2>5. Progress(r, x, managed'[h], parent'[h], loaded'[h])
    BY <1>5, <1>6, <2>1, <2>2, <2>4 DEF Progress
  <2> QED
    BY <1>5, <1>8, <2>1, <2>5
<1>11. h \in Trusted' => h \in Trusted
  BY <1>5 DEF Trusted, history
<1> QED
  BY <1>1, <1>3, <1>9, <1>10, <1>11, HostStepKeeps

LEMMA ReadLoads ==
    ASSUME ServerSyncInv, LoadedInv, ServerSyncInv', NEW r \in Requests, Read(r)
    PROVE  LoadedInv'
<1>1. sync[r].at = "read" /\ sync[r].at \in Working
  BY DEF Read, At, Working
<1>2. sync[r] \in Sync /\ Host(r) \in Hosts /\ sync[r].file \in Files
  BY <1>1, InvParts, Placement
<1> PICK h \in Hosts : h = Host(r)
  BY <1>2
<1> PICK i \in Files : i = sync[r].file
  BY <1>2
<1>3. PICK rest \in Stripped(parent[h][i]) :
        Becomes(r, [sync[r] EXCEPT !.at = "backup",
                                   !.text = rest \o <<"begin", "include", "end">>])
  BY DEF Read
<1>4. PICK t : t = rest \o <<"begin", "include", "end">>
  OBVIOUS
<1> DEFINE x == [sync[r] EXCEPT !.at = "backup", !.text = t]
<1>5. parent[h][i] \in Text
  BY InvParts DEF ServerSyncTypeOK
<1>6. rest \in Text
  BY <1>5, StrippedTypes
<1>7. t \in Text
  <2>1. <<"begin", "include", "end">> \in Seq(Token)
    BY DEF Token
  <2> QED
    BY <1>4, <1>6, <2>1 DEF Text
<1>8. /\ x \in Sync /\ x.at = "backup" /\ x.file = i /\ x.row = sync[r].row /\ x.text = t
      /\ x.rows = sync[r].rows /\ x.done = sync[r].done /\ x.all = sync[r].all
  BY <1>2, <1>7 DEF Sync, Step, Working
<1>9. Becomes(r, x) /\ UNCHANGED <<server, hostVars, incidents, history>>
  BY <1>3, <1>4 DEF Read
<1> HIDE DEF x
<1>10. HostStep(r, x)
  BY <1>8, <1>9 DEF HostStep, history, hostVars, Working
<1>11. ASSUME h \in Trusted
       PROVE  /\ \A j \in Files : Plain(parent'[h][j]) \/ OneBlock(parent'[h][j])
              /\ Progress(r, x, managed'[h], parent'[h], loaded'[h])
              /\ Between(x, managed'[h], parent'[h])
  <2>1. /\ \A j \in Files : Plain(parent[h][j]) \/ OneBlock(parent[h][j])
        /\ Progress(r, sync[r], managed[h], parent[h], loaded[h])
    BY <1>1, <1>11, Here
  <2>2. Stage(x) = 2 /\ Stage(sync[r]) = 2
    BY <1>1, <1>8 DEF Stage
  <2>3. \A n, j : Past(x, n, j) <=> Past(sync[r], n, j)
    BY <1>8, <2>2, SamePast
  <2>4. OneBlock(t)
    BY <1>4, <1>5, <1>6, <2>1, StrippedPlain, BlockAdded
  <2>5. Between(x, managed'[h], parent'[h])
    BY <1>8, <2>4 DEF Between
  <2>6. Progress(r, x, managed[h], parent[h], loaded[h])
    BY <2>1, <2>3 DEF Progress
  <2> QED
    BY <1>9, <2>1, <2>5, <2>6 DEF hostVars
<1>12. h \in Trusted' => h \in Trusted
  BY <1>9 DEF Trusted, history
<1> QED
  BY <1>1, <1>8, <1>10, <1>11, <1>12, HostStepKeeps

LEMMA BackupLoads ==
    ASSUME ServerSyncInv, LoadedInv, ServerSyncInv', NEW r \in Requests, Backup(r)
    PROVE  LoadedInv'
<1>1. sync[r].at = "backup" /\ sync[r].at \in Working
  BY DEF Backup, At, Working
<1>2. sync[r] \in Sync /\ Host(r) \in Hosts
  BY <1>1, InvParts, Placement
<1> PICK h \in Hosts : h = Host(r)
  BY <1>2
<1> DEFINE x == [sync[r] EXCEPT !.at = "truncate"]
<1>3. /\ x \in Sync /\ x.at = "truncate" /\ x.file = sync[r].file /\ x.row = sync[r].row
      /\ x.text = sync[r].text
      /\ x.rows = sync[r].rows /\ x.done = sync[r].done /\ x.all = sync[r].all
  BY <1>2 DEF Sync, Step, Working
<1>4. Becomes(r, x) /\ UNCHANGED <<server, managed, parent, loaded, incidents, history>>
  BY DEF Backup
<1> HIDE DEF x
<1>5. HostStep(r, x)
  BY <1>3, <1>4 DEF HostStep, history, Working
<1>6. ASSUME h \in Trusted
      PROVE  /\ \A j \in Files : Plain(parent'[h][j]) \/ OneBlock(parent'[h][j])
             /\ Progress(r, x, managed'[h], parent'[h], loaded'[h])
             /\ Between(x, managed'[h], parent'[h])
  <2>1. /\ \A j \in Files : Plain(parent[h][j]) \/ OneBlock(parent[h][j])
        /\ Progress(r, sync[r], managed[h], parent[h], loaded[h])
        /\ Between(sync[r], managed[h], parent[h])
    BY <1>1, <1>6, Here
  <2>2. Stage(x) = 2 /\ Stage(sync[r]) = 2
    BY <1>1, <1>3 DEF Stage
  <2>3. \A n, j : Past(x, n, j) <=> Past(sync[r], n, j)
    BY <1>3, <2>2, SamePast
  <2>4. Between(x, managed[h], parent[h])
    BY <1>1, <1>3, <2>1 DEF Between
  <2>5. Progress(r, x, managed[h], parent[h], loaded[h])
    BY <2>1, <2>3 DEF Progress
  <2> QED
    BY <1>4, <2>1, <2>4, <2>5
<1>7. h \in Trusted' => h \in Trusted
  BY <1>4 DEF Trusted, history
<1> QED
  BY <1>1, <1>3, <1>5, <1>6, <1>7, HostStepKeeps

LEMMA TruncateLoads ==
    ASSUME ServerSyncInv, LoadedInv, ServerSyncInv', NEW r \in Requests, Truncate(r)
    PROVE  LoadedInv'
<1>1. sync[r].at = "truncate" /\ sync[r].at \in Working
  BY DEF Truncate, At, Working
<1>2. sync[r] \in Sync /\ Host(r) \in Hosts /\ sync[r].file \in Files
  BY <1>1, InvParts, Placement
<1> PICK h \in Hosts : h = Host(r)
  BY <1>2
<1> PICK i \in Files : i = sync[r].file
  BY <1>2
<1> DEFINE x == [sync[r] EXCEPT !.at = "fill"]
<1>3. /\ x \in Sync /\ x.at = "fill" /\ x.file = i /\ x.row = sync[r].row
      /\ x.text = sync[r].text
      /\ x.rows = sync[r].rows /\ x.done = sync[r].done /\ x.all = sync[r].all
  BY <1>2 DEF Sync, Step, Working
<1>4. /\ Becomes(r, x) /\ parent' = [parent EXCEPT ![h][i] = <<>>]
      /\ UNCHANGED <<server, managed, backups, loaded, incidents, history>>
  BY DEF Truncate
<1> HIDE DEF x
<1>5. /\ parent'[h][i] = <<>>
      /\ \A j \in Files : j # i => parent'[h][j] = parent[h][j]
      /\ \A g \in Hosts \ {h} : parent'[g] = parent[g]
  BY <1>4, InvParts DEF ServerSyncTypeOK
<1>6. HostStep(r, x)
  BY <1>3, <1>4, <1>5 DEF HostStep, history, Working
<1>7. ASSUME h \in Trusted
      PROVE  /\ \A j \in Files : Plain(parent'[h][j]) \/ OneBlock(parent'[h][j])
             /\ Progress(r, x, managed'[h], parent'[h], loaded'[h])
             /\ Between(x, managed'[h], parent'[h])
  <2>1. /\ \A j \in Files : Plain(parent[h][j]) \/ OneBlock(parent[h][j])
        /\ Progress(r, sync[r], managed[h], parent[h], loaded[h])
        /\ Between(sync[r], managed[h], parent[h])
    BY <1>1, <1>7, Here
  <2>2. Stage(x) = 2 /\ Stage(sync[r]) = 2
    BY <1>1, <1>3 DEF Stage
  <2>3. \A n, j : Past(x, n, j) <=> Past(sync[r], n, j)
    BY <1>3, <2>2, SamePast
  <2>4. \A j \in Files : Past(x, 2, j) => j # i
    BY <1>3, <2>2 DEF Past, Files
  <2>5. Between(x, managed'[h], parent'[h])
    BY <1>1, <1>3, <1>5, <2>1 DEF Between
  <2>6. \A j \in Files : ~Past(x, 3, j)
    BY <2>2 DEF Past
  <2>7. Progress(r, x, managed'[h], parent'[h], loaded'[h])
    BY <1>4, <1>5, <2>1, <2>3, <2>4, <2>6 DEF Progress
  <2>8. \A j \in Files : Plain(parent'[h][j]) \/ OneBlock(parent'[h][j])
    BY <1>5, <2>1, EmptyPlain
  <2> QED
    BY <2>5, <2>7, <2>8
<1>8. h \in Trusted' => h \in Trusted
  BY <1>4 DEF Trusted, history
<1> QED
  BY <1>1, <1>3, <1>6, <1>7, <1>8, HostStepKeeps

\* Nobody else works on a trusted host, so the file that is filled is still empty.
LEMMA FillLoads ==
    ASSUME ServerSyncInv, LoadedInv, ServerSyncInv', NEW r \in Requests, Fill(r)
    PROVE  LoadedInv'
<1>1. sync[r].at = "fill" /\ sync[r].at \in Working
  BY DEF Fill, At, Working
<1>2. sync[r] \in Sync /\ Host(r) \in Hosts /\ sync[r].file \in Files /\ sync[r].text \in Text
  BY <1>1, InvParts, Placement DEF Sync
<1> PICK h \in Hosts : h = Host(r)
  BY <1>2
<1> PICK i \in Files : i = sync[r].file
  BY <1>2
<1> PICK t \in Text : t = sync[r].text
  BY <1>2
<1> DEFINE y == AfterCommand(sync[r])
           x == [y EXCEPT !.text = <<>>]
           there == parent[h][i]
           new == IF Len(there) <= Len(t) THEN t ELSE t \o SubSeq(there, Len(t) + 1, Len(there))
<1>3. /\ Becomes(r, x) /\ parent' = [parent EXCEPT ![h][i] = new]
      /\ UNCHANGED <<server, managed, backups, loaded, incidents, history>>
  BY DEF Fill
<1>4. /\ y \in Sync /\ y.at \in Working \cup {"report"} /\ y.row = sync[r].row
      /\ y.rows = sync[r].rows /\ y.done = sync[r].done /\ y.all = sync[r].all
  BY <1>1, <1>2, AfterCommandTypes, AfterCommandAll
<1>5. \A n \in 1..3, j \in Files :
        Past(y, n, j) => Past(sync[r], n, j) \/ (Stage(sync[r]) = n /\ j = i)
  BY <1>1, <1>2, OneFilePast
<1>6. y.at \in {"open", "read", "reload", "report"}
  BY <1>1, <1>2 DEF AfterCommand, Sync, Repeated, Following
<1> HIDE DEF y
<1>7. /\ x \in Sync /\ x.at = y.at /\ x.row = y.row /\ x.file = y.file /\ x.ok = y.ok
      /\ x.rows = y.rows /\ x.done = y.done /\ x.all = y.all
  BY <1>4, EmptyText DEF Sync
<1> HIDE DEF x
<1>8. Stage(x) = Stage(y)
  BY <1>7 DEF Stage
<1>9. \A n, j : Past(x, n, j) <=> Past(y, n, j)
  BY <1>7, <1>8, SamePast
<1>10. PICK u : u = new
  OBVIOUS
<1>11. /\ parent'[h][i] = u
       /\ \A j \in Files : j # i => parent'[h][j] = parent[h][j]
       /\ \A g \in Hosts \ {h} : parent'[g] = parent[g]
  BY <1>3, <1>10, InvParts DEF ServerSyncTypeOK
<1>12. HostStep(r, x)
  BY <1>3, <1>4, <1>7, <1>11 DEF HostStep, history
<1>13. ASSUME h \in Trusted
       PROVE  /\ \A j \in Files : Plain(parent'[h][j]) \/ OneBlock(parent'[h][j])
              /\ Progress(r, x, managed'[h], parent'[h], loaded'[h])
              /\ Between(x, managed'[h], parent'[h])
  <2>1. /\ \A j \in Files : Plain(parent[h][j]) \/ OneBlock(parent[h][j])
        /\ Progress(r, sync[r], managed[h], parent[h], loaded[h])
        /\ Between(sync[r], managed[h], parent[h])
    BY <1>1, <1>13, Here
  <2>2. there = <<>> /\ OneBlock(t)
    BY <1>1, <2>1 DEF Between
  <2>3. u = t
    <3>1. Len(there) = 0 /\ Len(t) \in Nat
      BY <2>2, TextLength
    <3> QED
      BY <1>10, <3>1
  <2>4. Stage(sync[r]) = 2
    BY <1>1 DEF Stage
  <2>5. \A j \in Files : /\ Past(x, 1, j) => Past(sync[r], 1, j)
                         /\ Past(x, 2, j) => j = i \/ Past(sync[r], 2, j)
                         /\ Past(x, 3, j) => Past(sync[r], 3, j)
    BY <1>5, <1>9, <2>4
  <2>6. Progress(r, x, managed'[h], parent'[h], loaded'[h])
    BY <1>3, <1>11, <2>1, <2>2, <2>3, <2>5 DEF Progress
  <2>7. Between(x, managed'[h], parent'[h])
    BY <1>6, <1>7 DEF Between
  <2>8. \A j \in Files : Plain(parent'[h][j]) \/ OneBlock(parent'[h][j])
    BY <1>11, <2>1, <2>2, <2>3
  <2> QED
    BY <2>6, <2>7, <2>8
<1>14. h \in Trusted' => h \in Trusted
  BY <1>3 DEF Trusted, history
<1> QED
  BY <1>1, <1>7, <1>12, <1>13, <1>14, HostStepKeeps

LEMMA ReloadLoads ==
    ASSUME ServerSyncInv, LoadedInv, ServerSyncInv', NEW r \in Requests, Reload(r)
    PROVE  LoadedInv'
<1>1. sync[r].at = "reload" /\ sync[r].at \in Working
  BY DEF Reload, At, Working
<1>2. sync[r] \in Sync /\ Host(r) \in Hosts /\ sync[r].file \in Files
  BY <1>1, InvParts, Placement
<1> PICK h \in Hosts : h = Host(r)
  BY <1>2
<1> PICK i \in Files : i = sync[r].file
  BY <1>2
<1> DEFINE x == AfterCommand(sync[r])
<1>3. /\ x \in Sync /\ x.at \in Working \cup {"report"} /\ x.row = sync[r].row
      /\ x.rows = sync[r].rows /\ x.done = sync[r].done /\ x.all = sync[r].all
  BY <1>1, <1>2, AfterCommandTypes, AfterCommandAll
<1>4. /\ Becomes(r, x)
      /\ loaded' = [loaded EXCEPT ![h][i] = [file |-> managed[h][i],
                                             includes |-> Includes(parent[h][i])]]
      /\ UNCHANGED <<server, managed, parent, backups, incidents, history>>
  BY DEF Reload
<1>5. /\ loaded'[h][i] = [file |-> managed[h][i], includes |-> Includes(parent[h][i])]
      /\ \A j \in Files : j # i => loaded'[h][j] = loaded[h][j]
      /\ \A g \in Hosts \ {h} : loaded'[g] = loaded[g]
  BY <1>4, InvParts DEF ServerSyncTypeOK
<1>6. \A n \in 1..3, j \in Files :
        Past(x, n, j) => Past(sync[r], n, j) \/ (Stage(sync[r]) = n /\ j = i)
  BY <1>1, <1>2, OneFilePast
<1>7. \A m, p : Between(x, m, p)
  BY <1>1, <1>2, AfterCommandBetween
<1> HIDE DEF x
<1>8. HostStep(r, x)
  BY <1>3, <1>4, <1>5 DEF HostStep, history
<1>9. ASSUME h \in Trusted
      PROVE  /\ \A j \in Files : Plain(parent'[h][j]) \/ OneBlock(parent'[h][j])
             /\ Progress(r, x, managed'[h], parent'[h], loaded'[h])
             /\ Between(x, managed'[h], parent'[h])
  <2>1. /\ \A j \in Files : Plain(parent[h][j]) \/ OneBlock(parent[h][j])
        /\ Progress(r, sync[r], managed[h], parent[h], loaded[h])
    BY <1>1, <1>9, Here
  <2>2. Stage(sync[r]) = 3
    BY <1>1 DEF Stage
  <2>3. \A j \in Files : /\ Past(x, 1, j) => Past(sync[r], 1, j)
                         /\ Past(x, 2, j) => Past(sync[r], 2, j)
                         /\ Past(x, 3, j) => j = i \/ Past(sync[r], 3, j)
    BY <1>6, <2>2
  <2>4. Past(sync[r], 1, i) /\ Past(sync[r], 2, i)
    BY <2>2 DEF Past
  <2>5. managed[h][i] = r /\ Includes(parent[h][i]) = 1
    <3>1. parent[h][i] \in Text
      BY InvParts DEF ServerSyncTypeOK
    <3> QED
      BY <2>1, <2>4, <3>1, OneInclude DEF Progress
  <2>6. Progress(r, x, managed'[h], parent'[h], loaded'[h])
    BY <1>4, <1>5, <2>1, <2>3, <2>5 DEF Progress
  <2> QED
    BY <1>4, <1>7, <2>1, <2>6
<1>10. h \in Trusted' => h \in Trusted
  BY <1>4 DEF Trusted, history
<1> QED
  BY <1>1, <1>3, <1>8, <1>9, <1>10, HostStepKeeps

LEMMA DisconnectLoads ==
    ASSUME ServerSyncInv, LoadedInv, ServerSyncInv', NEW r \in Requests, Disconnect(r)
    PROVE  LoadedInv'
<1>1. sync[r].at \in Working
  BY DEF Disconnect
<1>2. sync[r] \in Sync /\ Host(r) \in Hosts
  BY <1>1, InvParts, Placement
<1> PICK h \in Hosts : h = Host(r)
  BY <1>2
<1> DEFINE x == [sync[r] EXCEPT !.at = "report", !.ok = FALSE, !.text = <<>>]
<1>3. /\ x \in Sync /\ x.at = "report" /\ x.ok = FALSE /\ x.row = sync[r].row
      /\ x.rows = sync[r].rows /\ x.done = sync[r].done /\ x.all = sync[r].all
  BY <1>2, EmptyText DEF Sync, Step
<1>4. Becomes(r, x) /\ UNCHANGED <<server, hostVars, history>>
  BY DEF Disconnect
<1> HIDE DEF x
<1>5. HostStep(r, x)
  BY <1>3, <1>4 DEF HostStep, history, hostVars
<1>6. Stage(x) = 0
  BY <1>3 DEF Stage
<1>7. \A m, p, l : Progress(r, x, m, p, l) /\ Between(x, m, p)
  BY <1>3, <1>6 DEF Progress, Between, Past
<1>8. h \in Trusted' => h \in Trusted
  BY <1>4 DEF Trusted, history
<1>9. h \in Trusted => \A j \in Files : Plain(parent'[h][j]) \/ OneBlock(parent'[h][j])
  BY <1>4, LoadedParts DEF ParentInv, hostVars
<1> QED
  BY <1>1, <1>3, <1>5, <1>7, <1>8, <1>9, HostStepKeeps

\* A command that fails unseen makes the host one that no row shows.
LEMMA CommandFailsLoads ==
    ASSUME ServerSyncInv, LoadedInv, ServerSyncInv', NEW r \in Requests, CommandFails(r)
    PROVE  LoadedInv'
<1>1. sync[r].at \in Working
  BY DEF CommandFails
<1>2. sync[r] \in Sync /\ Host(r) \in Hosts
  BY <1>1, InvParts, Placement
<1> PICK h \in Hosts : h = Host(r)
  BY <1>2
<1> DEFINE y == AfterCommand(sync[r])
           x == [y EXCEPT !.text = <<>>]
<1>3. /\ y \in Sync /\ y.at \in Working \cup {"report"} /\ y.row = sync[r].row
      /\ y.rows = sync[r].rows /\ y.done = sync[r].done /\ y.all = sync[r].all
  BY <1>1, <1>2, AfterCommandTypes, AfterCommandAll
<1>4. Becomes(r, x) /\ unseen' = unseen \cup {h} /\ UNCHANGED <<server, hostVars, hand, shared>>
  BY DEF CommandFails
<1> HIDE DEF y
<1>5. /\ x \in Sync /\ x.at = y.at /\ x.row = y.row
      /\ x.rows = y.rows /\ x.done = y.done /\ x.all = y.all
  BY <1>3, EmptyText DEF Sync
<1> HIDE DEF x
<1>6. HostStep(r, x)
  BY <1>3, <1>4, <1>5 DEF HostStep, hostVars
<1>7. h \notin Trusted'
  BY <1>4 DEF Trusted
<1> QED
  BY <1>1, <1>5, <1>6, <1>7, HostStepKeeps

-----------------------------------------------------------------------------
(* The steps of a request between its hosts. *)

\* As long as the hosts stay as they are, those who work on them stay where they
\* were or are about to begin.
LEMMA HostsKeep ==
    ASSUME LoadedInv, hostVars' = hostVars, Trusted' \subseteq Trusted,
           \A q \in Requests, h \in Hosts :
             WorksOn(q, h)' => \/ WorksOn(q, h) /\ sync'[q] = sync[q]
                               \/ sync'[q].at = "open" /\ sync'[q].file = 1
    PROVE  ParentInv' /\ ProgressInv' /\ \A h : Loaded(h) => Loaded(h)'
<1>1. ParentInv' /\ \A h : Loaded(h) => Loaded(h)'
  BY LoadedParts DEF ParentInv, Loaded, hostVars
<1>2. ProgressInv'
  <2> SUFFICES ASSUME NEW q \in Requests, NEW h \in Trusted', WorksOn(q, h)'
               PROVE  /\ Progress(q, sync'[q], managed[h], parent[h], loaded[h])
                      /\ Between(sync'[q], managed[h], parent[h])
    BY DEF ProgressInv, hostVars
  <2>1. h \in Trusted /\ h \in Hosts
    BY DEF Trusted
  <2>2. CASE WorksOn(q, h) /\ sync'[q] = sync[q]
    BY <2>1, <2>2, LoadedParts DEF ProgressInv
  <2>3. CASE sync'[q].at = "open" /\ sync'[q].file = 1
    <3>1. Stage(sync'[q]) = 1
      BY <2>3 DEF Stage
    <3>2. \A i \in Files : /\ ~Past(sync'[q], 1, i) /\ ~Past(sync'[q], 2, i)
                           /\ ~Past(sync'[q], 3, i)
      BY <2>3, <3>1 DEF Past, Files
    <3> QED
      BY <2>3, <3>2 DEF Progress, Between
  <2> QED
    BY <2>1, <2>2, <2>3
<1> QED
  BY <1>1, <1>2

\* A request reads its rows.
LEMMA StartLoads ==
    ASSUME ServerSyncInv, LoadedInv, NEW r \in Requests, sync[r].at = "start",
           NEW x \in Sync, Becomes(r, x), x.at \notin Working \cup {"report"},
           x.row = None, x.done = {}, \A y \in x.rows : Known(y),
           server' = server, hostVars' = hostVars, shared' = shared, unseen' = unseen
    PROVE  LoadedInv'
<1>1. sync'[r] = x /\ \A q \in Requests : q # r => sync'[q] = sync[q]
  BY InvParts DEF Becomes, ServerSyncTypeOK
<1>2. \A q \in Requests, h \in Hosts : /\ WorksOn(q, h)' <=> WorksOn(q, h)
                                       /\ WorksOn(q, h) => sync'[q] = sync[q]
  BY <1>1 DEF WorksOn, Host, Working
<1>3. Trusted' = Trusted /\ Trusted \subseteq Hosts
  BY DEF Trusted
<1>4. ParentInv' /\ ProgressInv' /\ \A h : Loaded(h) => Loaded(h)'
  BY <1>2, <1>3, HostsKeep
<1>5. ShapeInv'
  BY <1>1, LoadedParts DEF ShapeInv
<1>6. \A y : Known(y)' <=> Known(y)
  BY DEF Known, LiveServer
<1>7. KnownInv'
  BY <1>1, <1>6, LoadedParts DEF KnownInv
<1>8. UniqueInv'
  BY LoadedParts DEF UniqueInv, LiveServer
<1>9. DoneInv'
  <2> SUFFICES ASSUME NEW q \in Requests, NEW d \in sync'[q].done,
                      d.ok, d.row.host \in Trusted'
               PROVE  Loaded(d.row.host)' \/ \E p \in Requests : WorksOn(p, d.row.host)'
    BY DEF DoneInv
  <2>1. d \in sync[q].done /\ d.row.host \in Trusted
    BY <1>1, <1>3
  <2>2. Loaded(d.row.host) \/ \E p \in Requests : WorksOn(p, d.row.host)
    BY <2>1, LoadedParts DEF DoneInv
  <2> QED
    BY <1>2, <1>3, <1>4, <2>1, <2>2
<1>10. \A g : Busy(g) => Busy(g)'
  <2>1. \A q \in Requests : Begun(q) => Begun(q)' /\ Touched(q)' = Touched(q)
    BY <1>1 DEF Begun, Touched, Host
  <2> QED
    BY <2>1 DEF Busy
<1>11. SyncedInv'
  <2> SUFFICES ASSUME NEW s \in Servers, LiveServer(s), server[s].status = "SYNCED",
                      NEW g \in Trusted', g = server[s].host
               PROVE  Loaded(g)' \/ Busy(g)'
    BY DEF SyncedInv, LiveServer
  <2>1. Loaded(g) \/ Busy(g)
    BY <1>3, LoadedParts DEF SyncedInv
  <2> QED
    BY <1>4, <1>10, <2>1
<1> QED
  BY <1>4, <1>5, <1>7, <1>8, <1>9, <1>11 DEF LoadedInv

LEMMA RowKnown ==
    ASSUME NEW s \in Servers, LiveServer(s)
    PROVE  Known(RowOf(s))
  BY DEF Known, RowOf, LiveServer

LEMMA SyncServerLoads ==
    ASSUME ServerSyncInv, LoadedInv, NEW r \in Requests, NEW s \in Servers, SyncServer(r, s)
    PROVE  LoadedInv'
<1> DEFINE x == [Idle EXCEPT !.at = "connect", !.rows = {RowOf(s)}]
<1>1. RowOf(s) \in Row /\ Known(RowOf(s))
  BY InvParts, RowTypes, RowKnown DEF SyncServer
<1>2. x \in Sync
  BY <1>1, IdleTypes DEF Sync, Step
<1>3. x.at = "connect" /\ x.row = None /\ x.done = {} /\ x.rows = {RowOf(s)}
  BY DEF Idle
<1>4. Becomes(r, x) /\ sync[r].at = "start" /\ UNCHANGED <<server, hostVars, incidents, history>>
  BY DEF SyncServer, At
<1> HIDE DEF x
<1>5. \A y \in x.rows : Known(y)
  BY <1>1, <1>3
<1> QED
  BY <1>2, <1>3, <1>4, <1>5, StartLoads DEF history, Working

LEMMA SyncAllLoads ==
    ASSUME ServerSyncInv, LoadedInv, NEW r \in Requests, SyncAll(r)
    PROVE  LoadedInv'
<1> DEFINE rows == {RowOf(s) : s \in {t \in Servers : LiveServer(t) /\ server[t].enabled}}
           x == [Idle EXCEPT !.at = IF rows = {} THEN "commit" ELSE "connect",
                             !.all = TRUE, !.rows = rows]
<1>1. rows \in SUBSET Row /\ \A y \in rows : Known(y)
  BY InvParts, RowTypes, RowKnown
<1>2. Becomes(r, x) /\ sync[r].at = "start" /\ UNCHANGED <<server, hostVars, incidents, history>>
  BY DEF SyncAll, At
<1> HIDE DEF rows
<1>3. x \in Sync
  BY <1>1, IdleTypes DEF Sync, Step
<1>4. x.at \in {"connect", "commit"} /\ x.row = None /\ x.done = {} /\ x.rows = rows
  BY DEF Idle
<1> HIDE DEF x
<1>5. \A y \in x.rows : Known(y)
  BY <1>1, <1>4
<1> QED
  BY <1>2, <1>3, <1>4, <1>5, StartLoads DEF history, Working

LEMMA ConnectLoads ==
    ASSUME ServerSyncInv, LoadedInv, ServerSyncInv', NEW r \in Requests, Connect(r)
    PROVE  LoadedInv'
<1>1. PICK y \in Due(sync[r].rows) :
        /\ Becomes(r, [sync[r] EXCEPT !.at = "open", !.row = y, !.file = 1,
                                      !.rows = sync[r].rows \ {y}, !.ok = TRUE])
        /\ shared' = IF \E q \in Requests \ {r} : WorksOn(q, y.host)
                     THEN shared \cup {y.host} ELSE shared
  BY DEF Connect
<1> DEFINE x == [sync[r] EXCEPT !.at = "open", !.row = y, !.file = 1,
                                !.rows = sync[r].rows \ {y}, !.ok = TRUE]
<1>2. sync[r] \in Sync /\ sync[r].at = "connect" /\ y \in sync[r].rows
  BY InvParts DEF ServerSyncTypeOK, Connect, At, Due
<1>3. /\ x.at = "open" /\ x.row = y /\ x.file = 1 /\ x.rows \subseteq sync[r].rows
      /\ x.done = sync[r].done /\ x.all = sync[r].all
  BY <1>2 DEF Sync
<1>4. sync[r].row = None
  BY <1>2, LoadedParts DEF ShapeInv, Working
<1>5. UNCHANGED <<server, hostVars, incidents, hand, unseen>>
  BY DEF Connect
<1>6. sync'[r] = x /\ \A q \in Requests : q # r => sync'[q] = sync[q]
  BY <1>1, InvParts DEF Becomes, ServerSyncTypeOK
<1> HIDE DEF x
<1>7. \A q \in Requests, h \in Hosts :
        /\ WorksOn(q, h) => WorksOn(q, h)' /\ sync'[q] = sync[q]
        /\ WorksOn(q, h)' => \/ WorksOn(q, h) /\ sync'[q] = sync[q]
                             \/ sync'[q].at = "open" /\ sync'[q].file = 1
  BY <1>2, <1>3, <1>6 DEF WorksOn, Host, Working
<1>8. Trusted' \subseteq Trusted /\ Trusted \subseteq Hosts
  BY <1>1, <1>5 DEF Trusted
<1>9. ParentInv' /\ ProgressInv' /\ \A h : Loaded(h) => Loaded(h)'
  BY <1>5, <1>7, <1>8, HostsKeep
<1>10. ShapeInv'
  BY <1>3, <1>6, LoadedParts DEF ShapeInv, Working
<1>11. \A z : Known(z)' <=> Known(z)
  BY <1>5 DEF Known, LiveServer
<1>12. KnownInv'
  BY <1>2, <1>3, <1>6, <1>11, LoadedParts DEF KnownInv
<1>13. UniqueInv'
  BY <1>5, LoadedParts DEF UniqueInv, LiveServer
<1>14. DoneInv'
  <2> SUFFICES ASSUME NEW q \in Requests, NEW d \in sync'[q].done,
                      d.ok, d.row.host \in Trusted'
               PROVE  Loaded(d.row.host)' \/ \E p \in Requests : WorksOn(p, d.row.host)'
    BY DEF DoneInv
  <2>1. d \in sync[q].done /\ d.row.host \in Trusted
    BY <1>3, <1>6, <1>8
  <2>2. Loaded(d.row.host) \/ \E p \in Requests : WorksOn(p, d.row.host)
    BY <2>1, LoadedParts DEF DoneInv
  <2> QED
    BY <1>7, <1>8, <1>9, <2>1, <2>2
<1>15. \A g : Busy(g) => Busy(g)'
  <2>1. \A q \in Requests : Begun(q) => Begun(q)' /\ Touched(q) \subseteq Touched(q)'
    BY <1>2, <1>3, <1>4, <1>6 DEF Begun, Touched, Host
  <2> QED
    BY <2>1 DEF Busy
<1>16. SyncedInv'
  <2> SUFFICES ASSUME NEW s \in Servers, LiveServer(s), server[s].status = "SYNCED",
                      NEW g \in Trusted', g = server[s].host
               PROVE  Loaded(g)' \/ Busy(g)'
    BY <1>5 DEF SyncedInv, LiveServer
  <2>1. Loaded(g) \/ Busy(g)
    BY <1>8, LoadedParts DEF SyncedInv
  <2> QED
    BY <1>9, <1>15, <2>1
<1> QED
  BY <1>9, <1>10, <1>12, <1>13, <1>14, <1>16 DEF LoadedInv

-----------------------------------------------------------------------------
(* What becomes of a host is stored. *)

\* The host of a row that was read names the server, unless a change made it untrusted.
LEMMA KnownHost ==
    ASSUME UniqueInv, NEW y \in Row, Known(y), NEW s \in Servers, LiveServer(s),
           server[s].host \in Trusted
    PROVE  /\ y.id = s => y.host = server[s].host
           /\ y.host = server[s].host => y.id = s
<1>1. y.id \in Servers
  BY DEF Row
<1>2. y.id = s => y.host = server[s].host
  BY DEF Known, Trusted
<1>3. ASSUME y.host = server[s].host PROVE y.id = s
  <2>1. LiveServer(y.id) /\ server[y.id].host = y.host
    BY <1>3 DEF Known, Trusted
  <2> QED
    BY <1>1, <1>3, <2>1 DEF UniqueInv
<1> QED
  BY <1>2, <1>3

LEMMA TrustedRow ==
    ASSUME NEW y \in Row, Known(y), y.host \in Trusted
    PROVE  y.id \in Servers /\ LiveServer(y.id) /\ server[y.id].host = y.host
  BY DEF Known, Trusted, Row

LEMMA RowsOf ==
    ASSUME ServerSyncInv, LoadedInv, NEW r \in Requests
    PROVE  /\ sync[r] \in Sync
           /\ \A d \in sync[r].done : d.row \in Row /\ Known(d.row)
           /\ sync[r].row # None => sync[r].row \in Row /\ Known(sync[r].row)
<1>1. sync[r] \in Sync
  BY InvParts DEF ServerSyncTypeOK
<1> QED
  BY <1>1, LoadedParts DEF KnownInv, Sync

\* A request that stores what became of a trusted host is the only one to have
\* done it: another one keeps the row locked.
LEMMA NobodyElseDone ==
    ASSUME ServerSyncInv, LoadedInv, NEW r \in Requests, Report(r), Host(r) \in Trusted,
           NEW q \in Requests, NEW d \in sync[q].done, d.row.host = Host(r)
    PROVE  FALSE
<1>1. /\ sync[r].row \in Row /\ sync[r].row # None /\ Ordered(sync[r])
  BY InvParts, Placement DEF Report, At
<1>2. Known(sync[r].row) /\ d.row \in Row /\ Known(d.row)
  BY <1>1, RowsOf
<1>3. /\ sync[r].row.id \in Servers /\ LiveServer(sync[r].row.id)
      /\ server[sync[r].row.id].host = Host(r)
  BY <1>1, <1>2, TrustedRow DEF Host
<1>4. d.row.id = sync[r].row.id
  BY <1>2, <1>3, LoadedParts, KnownHost
<1>5. q = r
  BY <1>3, <1>4 DEF Report, Locked
<1>6. d.row.id # sync[r].row.id
  BY <1>1, <1>5 DEF Ordered, Precedes
<1> QED
  BY <1>4, <1>6

\* A request that reports success has loaded its host.
LEMMA ReportedLoaded ==
    ASSUME ServerSyncInv, LoadedInv, NEW r \in Requests, sync[r].at = "report", sync[r].ok,
           Host(r) \in Trusted
    PROVE  Loaded(Host(r))
<1> PICK h \in Hosts : h = Host(r)
  BY InvParts, Placement
<1>1. WorksOn(r, h)
  BY InvParts, Placement
<1>2. Progress(r, sync[r], managed[h], parent[h], loaded[h])
  BY <1>1, LoadedParts DEF ProgressInv
<1>3. \A n \in 1..3 : \A i : Past(sync[r], n, i)
  BY DEF Past, Stage
<1>4. ASSUME NEW i \in Files
      PROVE  /\ managed[h][i] = r /\ Includes(parent[h][i]) = 1
             /\ loaded[h][i] = [file |-> r, includes |-> 1]
  <2>1. parent[h][i] \in Text
    BY InvParts DEF ServerSyncTypeOK
  <2> QED
    BY <1>2, <1>3, <2>1, OneInclude DEF Progress
<1> QED
  BY <1>4 DEF Loaded

LEMMA StatusesShow ==
    ASSUME ServerSyncTypeOK, NEW results, server' = WithStatuses(results), unseen' = unseen
    PROVE  /\ \A s \in Servers :
                /\ server'[s].state = server[s].state /\ server'[s].host = server[s].host
                /\ LiveServer(s) /\ server'[s].status = "SYNCED" =>
                     \/ \E d \in results : d.row.id = s /\ d.ok
                     \/ server[s].status = "SYNCED" /\ \A d \in results : d.row.id # s
           /\ \A y \in Row : Known(y)' <=> Known(y)
<1>1. ASSUME NEW s \in Servers
      PROVE  /\ server'[s].state = server[s].state /\ server'[s].host = server[s].host
             /\ LiveServer(s) /\ server'[s].status = "SYNCED" =>
                  \/ \E d \in results : d.row.id = s /\ d.ok
                  \/ server[s].status = "SYNCED" /\ \A d \in results : d.row.id # s
  <2>1. server[s] \in Server
    BY DEF ServerSyncTypeOK
  <2>2. CASE LiveServer(s) /\ \E d \in results : d.row.id = s
    <3> DEFINE c == CHOOSE d \in results : d.row.id = s
    <3>1. c \in results /\ c.row.id = s
      BY <2>2
    <3>2. server'[s] = [server[s] EXCEPT !.status = Status(c.ok)]
      BY <2>2 DEF WithStatuses
    <3> HIDE DEF c
    <3>3. /\ server'[s].state = server[s].state /\ server'[s].host = server[s].host
          /\ server'[s].status = Status(c.ok)
      BY <2>1, <3>2 DEF Server
    <3>4. Status(c.ok) = "SYNCED" => c.ok
      BY DEF Status
    <3> QED
      BY <3>1, <3>3, <3>4
  <2>3. CASE ~(LiveServer(s) /\ \E d \in results : d.row.id = s)
    <3>1. server'[s] = server[s]
      BY <2>3 DEF WithStatuses
    <3> QED
      BY <2>3, <3>1
  <2> QED
    BY <2>2, <2>3
<1>2. \A y \in Row : Known(y)' <=> Known(y)
  BY <1>1 DEF Known, LiveServer, Row
<1> QED
  BY <1>1, <1>2

\* What a request that is done with its host, or with all of them, leaves alone.
LEMMA LeavingKeeps ==
    ASSUME ServerSyncInv, LoadedInv, NEW r \in Requests, NEW x \in Sync, Becomes(r, x),
           x.at \notin Working \cup {"report"}, x.row = None, ~x.all => x.done = {},
           x.rows \subseteq sync[r].rows,
           \A d \in x.done : \/ d \in sync[r].done
                             \/ d.row = sync[r].row /\ sync[r].row # None,
           hostVars' = hostVars, shared' = shared, unseen' = unseen,
           \A s \in Servers : server'[s].state = server[s].state /\ server'[s].host = server[s].host
    PROVE  /\ ShapeInv' /\ ParentInv' /\ ProgressInv' /\ KnownInv' /\ UniqueInv'
           /\ \A h : Loaded(h) => Loaded(h)'
           /\ sync'[r] = x /\ \A q \in Requests : q # r => sync'[q] = sync[q]
           /\ Trusted' = Trusted /\ \A s \in Servers : LiveServer(s)' <=> LiveServer(s)
<1>1. sync'[r] = x /\ \A q \in Requests : q # r => sync'[q] = sync[q]
  BY InvParts DEF Becomes, ServerSyncTypeOK
<1>2. \A q \in Requests, h \in Hosts : WorksOn(q, h)' => WorksOn(q, h) /\ sync'[q] = sync[q]
  BY <1>1 DEF WorksOn, Host
<1>3. Trusted' = Trusted
  BY DEF Trusted
<1>4. ParentInv' /\ ProgressInv' /\ \A h : Loaded(h) => Loaded(h)'
  BY <1>2, <1>3, HostsKeep
<1>5. ShapeInv'
  BY <1>1, LoadedParts DEF ShapeInv
<1>6. \A y \in Row : Known(y) => Known(y)'
  BY DEF Known, LiveServer, Row
<1>7. KnownInv'
  <2>1. \A q \in Requests : sync[q] \in Sync
    BY RowsOf
  <2>2. \A q \in Requests : q # r =>
          /\ \A y \in sync'[q].rows : Known(y)'
          /\ \A d \in sync'[q].done : Known(d.row)'
          /\ sync'[q].row # None => Known(sync[q].row)'
    BY <1>1, <1>6, <2>1, LoadedParts DEF KnownInv, Sync
  <2>3. /\ \A y \in x.rows : Known(y)'
        /\ \A d \in x.done : Known(d.row)'
    BY <1>6, <2>1, LoadedParts DEF KnownInv, Sync
  <2> QED
    BY <1>1, <2>2, <2>3 DEF KnownInv
<1>8. UniqueInv' /\ \A s \in Servers : LiveServer(s)' <=> LiveServer(s)
  BY LoadedParts DEF UniqueInv, LiveServer
<1> QED
  BY <1>1, <1>3, <1>4, <1>5, <1>7, <1>8

\* sync_all: the server is among those done.
LEMMA ReportAllLoads ==
    ASSUME ServerSyncInv, LoadedInv, NEW r \in Requests, Report(r), sync[r].all
    PROVE  LoadedInv'
<1> DEFINE result == [row |-> sync[r].row, ok |-> sync[r].ok]
           x == [sync[r] EXCEPT !.at = IF sync[r].rows = {} THEN "commit" ELSE "connect",
                                !.row = None, !.done = sync[r].done \cup {result}]
<1>1. /\ sync[r] \in Sync /\ sync[r].row \in Row /\ sync[r].row # None
      /\ sync[r].at = "report" /\ Host(r) \in Hosts
  BY InvParts, Placement DEF Report, At
<1>2. result \in [row: Row, ok: BOOLEAN] /\ result.row = sync[r].row /\ result.ok = sync[r].ok
  BY <1>1 DEF Sync
<1>3. Becomes(r, x) /\ UNCHANGED <<server, hostVars, incidents, history>>
  BY DEF Report
<1> HIDE DEF result
<1>4. /\ x \in Sync /\ x.at \in {"commit", "connect"} /\ x.row = None
      /\ x.rows = sync[r].rows /\ x.done = sync[r].done \cup {result} /\ x.all
  BY <1>1, <1>2 DEF Sync, Step
<1> HIDE DEF x
<1>5. /\ ShapeInv' /\ ParentInv' /\ ProgressInv' /\ KnownInv' /\ UniqueInv'
      /\ \A h : Loaded(h) => Loaded(h)'
      /\ sync'[r] = x /\ \A q \in Requests : q # r => sync'[q] = sync[q]
      /\ Trusted' = Trusted /\ \A s \in Servers : LiveServer(s)' <=> LiveServer(s)
  BY <1>1, <1>2, <1>3, <1>4, LeavingKeeps DEF history, Working
<1>6. \A q \in Requests : q # r => \A h : WorksOn(q, h) => WorksOn(q, h)'
  BY <1>5 DEF WorksOn, Host
<1>7. DoneInv'
  <2> SUFFICES ASSUME NEW q \in Requests, NEW d \in sync'[q].done, d.ok,
                      NEW h \in Trusted, h = d.row.host
               PROVE  Loaded(h)' \/ \E p \in Requests : WorksOn(p, h)'
    BY <1>5 DEF DoneInv
  <2>1. CASE d \in sync[q].done
    <3>1. Loaded(h) \/ \E p \in Requests : WorksOn(p, h)
      BY <2>1, LoadedParts DEF DoneInv
    <3>2. ~WorksOn(r, h)
      BY <2>1, NobodyElseDone DEF WorksOn
    <3> QED
      BY <1>5, <1>6, <3>1, <3>2
  <2>2. CASE d \notin sync[q].done
    <3>1. q = r /\ d = result
      BY <1>4, <1>5, <2>2
    <3>2. Loaded(h)
      BY <1>1, <1>2, <3>1, ReportedLoaded DEF Host
    <3> QED
      BY <1>5, <3>2
  <2> QED
    BY <2>1, <2>2
<1>8. \A h : Busy(h) => Busy(h)'
  <2>1. \A q \in Requests : q # r => (Begun(q)' <=> Begun(q)) /\ Touched(q)' = Touched(q)
    BY <1>5 DEF Begun, Touched, Host
  <2>2. Begun(r)'
    BY <1>4, <1>5 DEF Begun
  <2>3. Touched(r) \subseteq Touched(r)'
    BY <1>2, <1>4, <1>5 DEF Touched, Host
  <2> QED
    BY <2>1, <2>2, <2>3 DEF Busy
<1>9. SyncedInv'
  <2> SUFFICES ASSUME NEW s \in Servers, LiveServer(s), server[s].status = "SYNCED",
                      NEW g \in Trusted, g = server[s].host
               PROVE  Loaded(g)' \/ Busy(g)'
    BY <1>3, <1>5 DEF SyncedInv, LiveServer
  <2>1. Loaded(g) \/ Busy(g)
    BY LoadedParts DEF SyncedInv
  <2> QED
    BY <1>5, <1>8, <2>1
<1> QED
  BY <1>5, <1>7, <1>9 DEF LoadedInv

\* sync_server: the status is committed at once.
LEMMA ReportOneLoads ==
    ASSUME ServerSyncInv, LoadedInv, NEW r \in Requests, Report(r), ~sync[r].all
    PROVE  LoadedInv'
<1> DEFINE result == [row |-> sync[r].row, ok |-> sync[r].ok]
           x == [Idle EXCEPT !.at = "ended"]
<1>1. /\ sync[r] \in Sync /\ sync[r].row \in Row /\ sync[r].row # None
      /\ sync[r].at = "report" /\ Host(r) \in Hosts /\ sync[r].done = {}
  BY InvParts, LoadedParts, Placement DEF Report, At, ShapeInv
<1>2. result.row = sync[r].row /\ result.ok = sync[r].ok
  OBVIOUS
<1>3. Becomes(r, x) /\ server' = WithStatuses({result}) /\ UNCHANGED <<hostVars, incidents, history>>
  BY DEF Report
<1> HIDE DEF result
<1>4. /\ x \in Sync /\ x.at = "ended" /\ x.row = None /\ x.rows = {} /\ x.done = {}
  BY IdleTypes DEF Sync, Step, Idle
<1> HIDE DEF x
<1>5. \A s \in Servers :
        /\ server'[s].state = server[s].state /\ server'[s].host = server[s].host
        /\ LiveServer(s) /\ server'[s].status = "SYNCED" =>
             \/ result.row.id = s /\ result.ok
             \/ server[s].status = "SYNCED" /\ result.row.id # s
  BY <1>3, InvParts, StatusesShow DEF history
<1>6. /\ ShapeInv' /\ ParentInv' /\ ProgressInv' /\ KnownInv' /\ UniqueInv'
      /\ \A h : Loaded(h) => Loaded(h)'
      /\ sync'[r] = x /\ \A q \in Requests : q # r => sync'[q] = sync[q]
      /\ Trusted' = Trusted /\ \A s \in Servers : LiveServer(s)' <=> LiveServer(s)
  BY <1>3, <1>4, <1>5, LeavingKeeps DEF history, Working
<1>7. \A q \in Requests : q # r => \A h : WorksOn(q, h) => WorksOn(q, h)'
  BY <1>6 DEF WorksOn, Host
<1>8. DoneInv'
  <2> SUFFICES ASSUME NEW q \in Requests, NEW d \in sync[q].done, d.ok,
                      NEW h \in Trusted, h = d.row.host
               PROVE  Loaded(h)' \/ \E p \in Requests : WorksOn(p, h)'
    BY <1>4, <1>6 DEF DoneInv
  <2>1. Loaded(h) \/ \E p \in Requests : WorksOn(p, h)
    BY LoadedParts DEF DoneInv
  <2>2. ~WorksOn(r, h)
    BY NobodyElseDone DEF WorksOn
  <2> QED
    BY <1>6, <1>7, <2>1, <2>2
<1>9. SyncedInv'
  <2> SUFFICES ASSUME NEW s \in Servers, LiveServer(s), server'[s].status = "SYNCED",
                      NEW g \in Trusted, g = server[s].host
               PROVE  Loaded(g)' \/ Busy(g)'
    BY <1>5, <1>6 DEF SyncedInv
  <2>1. Known(sync[r].row)
    BY <1>1, RowsOf
  <2>2. /\ sync[r].row.id = s => Host(r) = g
        /\ Host(r) = g => sync[r].row.id = s
    BY <1>1, <2>1, LoadedParts, KnownHost DEF Host
  <2>3. CASE result.row.id = s /\ result.ok
    BY <1>1, <1>2, <1>6, <2>2, <2>3, ReportedLoaded
  <2>4. CASE server[s].status = "SYNCED" /\ result.row.id # s
    <3>1. Loaded(g) \/ Busy(g)
      BY <2>4, LoadedParts DEF SyncedInv
    <3>2. \A q \in Requests : q # r => (Begun(q)' <=> Begun(q)) /\ Touched(q)' = Touched(q)
      BY <1>6 DEF Begun, Touched, Host
    <3>3. g \notin Touched(r)
      BY <1>1, <1>2, <2>2, <2>4 DEF Touched
    <3> QED
      BY <1>6, <3>1, <3>2, <3>3 DEF Busy
  <2> QED
    BY <1>5, <2>3, <2>4
<1> QED
  BY <1>6, <1>8, <1>9 DEF LoadedInv

\* sync_all: the statuses of all its servers.
LEMMA CommitLoads ==
    ASSUME ServerSyncInv, LoadedInv, NEW r \in Requests, Commit(r)
    PROVE  LoadedInv'
<1> DEFINE x == [Idle EXCEPT !.at = "ended"]
<1>1. sync[r] \in Sync /\ sync[r].at = "commit" /\ sync[r].row = None
  BY RowsOf, LoadedParts DEF Commit, At, ShapeInv, Working
<1>2. /\ Becomes(r, x) /\ server' = WithStatuses(sync[r].done)
      /\ UNCHANGED <<hostVars, incidents, history>>
  BY DEF Commit
<1>3. /\ x \in Sync /\ x.at = "ended" /\ x.row = None /\ x.rows = {} /\ x.done = {}
  BY IdleTypes DEF Sync, Step, Idle
<1> HIDE DEF x
<1>4. \A s \in Servers :
        /\ server'[s].state = server[s].state /\ server'[s].host = server[s].host
        /\ LiveServer(s) /\ server'[s].status = "SYNCED" =>
             \/ \E d \in sync[r].done : d.row.id = s /\ d.ok
             \/ server[s].status = "SYNCED" /\ \A d \in sync[r].done : d.row.id # s
  BY <1>2, InvParts, StatusesShow DEF history
<1>5. /\ ShapeInv' /\ ParentInv' /\ ProgressInv' /\ KnownInv' /\ UniqueInv'
      /\ \A h : Loaded(h) => Loaded(h)'
      /\ sync'[r] = x /\ \A q \in Requests : q # r => sync'[q] = sync[q]
      /\ Trusted' = Trusted /\ \A s \in Servers : LiveServer(s)' <=> LiveServer(s)
  BY <1>2, <1>3, <1>4, LeavingKeeps DEF history, Working
<1>6. \A q \in Requests : \A h : WorksOn(q, h) => WorksOn(q, h)' /\ q # r
  BY <1>1, <1>5 DEF WorksOn, Host, Working
<1>7. DoneInv'
  <2> SUFFICES ASSUME NEW q \in Requests, NEW d \in sync[q].done, d.ok,
                      NEW h \in Trusted, h = d.row.host
               PROVE  Loaded(h)' \/ \E p \in Requests : WorksOn(p, h)'
    BY <1>3, <1>5 DEF DoneInv
  <2>1. Loaded(h) \/ \E p \in Requests : WorksOn(p, h)
    BY LoadedParts DEF DoneInv
  <2> QED
    BY <1>5, <1>6, <2>1
<1>8. \A q \in Requests : q # r => (Begun(q)' <=> Begun(q)) /\ Touched(q)' = Touched(q)
  BY <1>5 DEF Begun, Touched, Host
<1>9. SyncedInv'
  <2> SUFFICES ASSUME NEW s \in Servers, LiveServer(s), server'[s].status = "SYNCED",
                      NEW g \in Trusted, g = server[s].host
               PROVE  Loaded(g)' \/ Busy(g)'
    BY <1>4, <1>5 DEF SyncedInv
  <2>1. \A d \in sync[r].done : /\ d.row \in Row /\ Known(d.row)
                                /\ d.row.id = s => d.row.host = g
                                /\ d.row.host = g => d.row.id = s
    BY RowsOf, LoadedParts, KnownHost
  <2>2. ASSUME NEW d \in sync[r].done, d.row.id = s, d.ok
        PROVE  Loaded(g)' \/ Busy(g)'
    <3>1. Loaded(g) \/ \E p \in Requests : WorksOn(p, g)
      BY <2>1, <2>2, LoadedParts DEF DoneInv
    <3>2. g \in Hosts
      BY DEF Trusted
    <3>3. \A p \in Requests : WorksOn(p, g) => Busy(g)'
      <4> SUFFICES ASSUME NEW p \in Requests, WorksOn(p, g)
                   PROVE  Busy(g)'
        OBVIOUS
      <4>1. p # r /\ Begun(p) /\ sync[p].row # None
        BY <1>6, InvParts DEF WorksOn, SyncsInv, Placed, Begun, Working
      <4>2. g \in Touched(p)
        BY <3>2, <4>1 DEF Touched, WorksOn
      <4> QED
        BY <1>8, <4>1, <4>2 DEF Busy
    <3> QED
      BY <1>5, <3>1, <3>3
  <2>3. ASSUME server[s].status = "SYNCED", \A d \in sync[r].done : d.row.id # s
        PROVE  Loaded(g)' \/ Busy(g)'
    <3>1. Loaded(g) \/ Busy(g)
      BY <2>3, LoadedParts DEF SyncedInv
    <3>2. g \notin Touched(r)
      BY <1>1, <2>1, <2>3 DEF Touched
    <3> QED
      BY <1>5, <1>8, <3>1, <3>2 DEF Busy
  <2> QED
    BY <1>4, <2>2, <2>3
<1> QED
  BY <1>5, <1>7, <1>9 DEF LoadedInv

-----------------------------------------------------------------------------
(* Restarts, people who edit the configuration, and the administrators. *)

\* What requests that stop have worked on is not trusted any more.
LEMMA StoppedLoads ==
    ASSUME ServerSyncInv, LoadedInv, NEW S \in SUBSET Requests, Stopped(S)
    PROVE  LoadedInv'
<1>1. /\ sync' = [r \in Requests |-> IF r \in S THEN [Idle EXCEPT !.at = "ended"] ELSE sync[r]]
      /\ unseen' = unseen \cup UNION {Touched(r) : r \in S}
      /\ UNCHANGED <<server, hostVars, hand, shared>>
  BY DEF Stopped
<1> DEFINE x == [Idle EXCEPT !.at = "ended"]
<1>2. x.at = "ended" /\ x.row = None /\ x.rows = {} /\ x.done = {}
  BY DEF Idle
<1>3. \A q \in Requests : IF q \in S THEN sync'[q] = x ELSE sync'[q] = sync[q]
  BY <1>1
<1> HIDE DEF x
<1>4. Trusted' \subseteq Trusted /\ Trusted \subseteq Hosts
  BY <1>1 DEF Trusted
<1>5. \A q \in Requests, h \in Hosts : WorksOn(q, h)' => WorksOn(q, h) /\ sync'[q] = sync[q]
  BY <1>2, <1>3 DEF WorksOn, Host, Working
<1>6. ParentInv' /\ ProgressInv' /\ \A h : Loaded(h) => Loaded(h)'
  BY <1>1, <1>4, <1>5, HostsKeep
<1>7. ShapeInv'
  BY <1>2, <1>3, LoadedParts DEF ShapeInv
<1>8. \A y : Known(y) => Known(y)'
  BY <1>1 DEF Known, LiveServer
<1>9. KnownInv'
  BY <1>2, <1>3, <1>8, LoadedParts DEF KnownInv
<1>10. UniqueInv'
  BY <1>1, LoadedParts DEF UniqueInv, LiveServer
<1>11. \A q \in Requests, h \in Trusted' : WorksOn(q, h) => WorksOn(q, h)'
  <2> SUFFICES ASSUME NEW q \in Requests, NEW h \in Trusted', WorksOn(q, h)
               PROVE  WorksOn(q, h)'
    OBVIOUS
  <2>1. h \in Hosts /\ sync[q].row # None
    BY <1>4, InvParts DEF WorksOn, SyncsInv, Placed
  <2>2. h \in Touched(q)
    BY <2>1 DEF Touched, WorksOn
  <2>3. q \notin S
    BY <1>1, <2>2 DEF Trusted
  <2> QED
    BY <1>3, <2>3 DEF WorksOn, Host
<1>12. DoneInv'
  <2> SUFFICES ASSUME NEW q \in Requests, NEW d \in sync'[q].done, d.ok,
                      d.row.host \in Trusted'
               PROVE  Loaded(d.row.host)' \/ \E p \in Requests : WorksOn(p, d.row.host)'
    BY DEF DoneInv
  <2>1. d \in sync[q].done /\ d.row.host \in Trusted
    BY <1>2, <1>3, <1>4
  <2> QED
    BY <1>6, <1>11, <2>1, LoadedParts DEF DoneInv
<1>13. \A h \in Trusted' : Busy(h) => Busy(h)'
  <2> SUFFICES ASSUME NEW h \in Trusted', Busy(h)
               PROVE  Busy(h)'
    OBVIOUS
  <2>1. PICK q \in Requests : Begun(q) /\ h \in Touched(q)
    BY DEF Busy
  <2>2. q \notin S
    BY <1>1, <2>1 DEF Trusted
  <2>3. sync'[q] = sync[q]
    BY <1>3, <2>2
  <2> QED
    BY <2>1, <2>3 DEF Busy, Begun, Touched, Host
<1>14. SyncedInv'
  <2> SUFFICES ASSUME NEW s \in Servers, LiveServer(s), server[s].status = "SYNCED",
                      NEW g \in Trusted', g = server[s].host
               PROVE  Loaded(g)' \/ Busy(g)'
    BY <1>1 DEF SyncedInv, LiveServer
  <2>1. Loaded(g) \/ Busy(g)
    BY <1>4, LoadedParts DEF SyncedInv
  <2> QED
    BY <1>6, <1>13, <2>1
<1> QED
  BY <1>6, <1>7, <1>9, <1>10, <1>12, <1>14 DEF LoadedInv

LEMMA RestartLoads ==
    ASSUME ServerSyncInv, LoadedInv, Restart \/ AbortVictim
    PROVE  LoadedInv'
<1>1. CASE Restart
  BY <1>1, StoppedLoads DEF Restart
<1>2. CASE AbortVictim
  <2>1. PICK r \in Requests : Stopped({r})
    BY <1>2 DEF AbortVictim
  <2> QED
    BY <2>1, StoppedLoads
<1> QED
  BY <1>1, <1>2

\* Nobody but a request changes the files and what is loaded; a configuration that
\* people change has as many blocks as before, or its host is not trusted any more.
LEMMA EditLoads ==
    ASSUME LoadedInv, ServerSyncInv, UNCHANGED <<server, sync, managed, loaded, shared>>,
           unseen \subseteq unseen',
           \A h \in Trusted', i \in Files :
             /\ Plain(parent[h][i]) => Plain(parent'[h][i])
             /\ OneBlock(parent[h][i]) => OneBlock(parent'[h][i])
             /\ Includes(parent'[h][i]) = Includes(parent[h][i])
             /\ parent'[h][i] # parent[h][i] => Editable(h)
    PROVE  LoadedInv'
<1>1. Trusted' \subseteq Trusted /\ Trusted \subseteq Hosts
  BY DEF Trusted
<1>2. \A h \in Trusted' : Loaded(h) => Loaded(h)'
  BY DEF Loaded
<1>3. ShapeInv' /\ UniqueInv'
  BY LoadedParts DEF ShapeInv, UniqueInv, LiveServer
<1>4. ParentInv'
  BY <1>1, LoadedParts DEF ParentInv
<1>5. ProgressInv'
  <2> SUFFICES ASSUME NEW q \in Requests, NEW h \in Trusted', WorksOn(q, h)
               PROVE  /\ Progress(q, sync[q], managed[h], parent'[h], loaded[h])
                      /\ Between(sync[q], managed[h], parent'[h])
    BY DEF ProgressInv, WorksOn, Host
  <2>1. /\ Progress(q, sync[q], managed[h], parent[h], loaded[h])
        /\ Between(sync[q], managed[h], parent[h])
    BY <1>1, LoadedParts DEF ProgressInv
  <2>2. sync[q].at = "fill" => parent'[h][sync[q].file] = parent[h][sync[q].file]
    <3>1. sync[q].file \in Files
      BY InvParts DEF ServerSyncTypeOK, Sync
    <3> QED
      BY <3>1 DEF Editable
  <2> QED
    BY <2>1, <2>2 DEF Progress, Between
<1>6. KnownInv'
  BY LoadedParts DEF KnownInv, Known, LiveServer
<1>7. DoneInv'
  <2> SUFFICES ASSUME NEW q \in Requests, NEW d \in sync[q].done, d.ok,
                      NEW h \in Trusted', h = d.row.host
               PROVE  Loaded(h)' \/ \E p \in Requests : WorksOn(p, h)
    BY DEF DoneInv, WorksOn, Host
  <2> QED
    BY <1>1, <1>2, LoadedParts DEF DoneInv
<1>8. \A g : Busy(g)' <=> Busy(g)
  BY DEF Busy, Begun, Touched, Host
<1>9. SyncedInv'
  <2> SUFFICES ASSUME NEW s \in Servers, LiveServer(s), server[s].status = "SYNCED",
                      NEW g \in Trusted', g = server[s].host
               PROVE  Loaded(g)' \/ Busy(g)'
    BY DEF SyncedInv, LiveServer
  <2> QED
    BY <1>1, <1>2, <1>8, LoadedParts DEF SyncedInv
<1> QED
  BY <1>3, <1>4, <1>5, <1>6, <1>7, <1>9 DEF LoadedInv

LEMMA EditByHandLoads ==
    ASSUME ServerSyncInv, LoadedInv, NEW h \in Hosts, NEW i \in Files, NEW line \in Lines,
           EditByHand(h, i, line)
    PROVE  LoadedInv'
<1>1. /\ parent' = [parent EXCEPT ![h][i] = Append(parent[h][i], line)] /\ Editable(h)
      /\ UNCHANGED <<server, sync, managed, backups, loaded, shared, unseen>>
  BY DEF EditByHand
<1>2. PICK u : u = Append(parent[h][i], line)
  OBVIOUS
<1>3. parent[h][i] \in Text
  BY InvParts DEF ServerSyncTypeOK
<1>4. /\ Plain(parent[h][i]) => Plain(u)
      /\ OneBlock(parent[h][i]) => OneBlock(u)
      /\ Includes(u) = Includes(parent[h][i])
  BY <1>2, <1>3, LineAdded
<1>5. /\ parent'[h][i] = u
      /\ \A g \in Hosts, j \in Files : g # h \/ j # i => parent'[g][j] = parent[g][j]
  BY <1>1, <1>2, InvParts DEF ServerSyncTypeOK
<1>6. \A g \in Trusted', j \in Files :
        /\ Plain(parent[g][j]) => Plain(parent'[g][j])
        /\ OneBlock(parent[g][j]) => OneBlock(parent'[g][j])
        /\ Includes(parent'[g][j]) = Includes(parent[g][j])
        /\ parent'[g][j] # parent[g][j] => Editable(g)
  <2> SUFFICES ASSUME NEW g \in Hosts, NEW j \in Files
               PROVE  /\ Plain(parent[g][j]) => Plain(parent'[g][j])
                      /\ OneBlock(parent[g][j]) => OneBlock(parent'[g][j])
                      /\ Includes(parent'[g][j]) = Includes(parent[g][j])
                      /\ parent'[g][j] # parent[g][j] => Editable(g)
    BY DEF Trusted
  <2>1. CASE g = h /\ j = i
    BY <1>1, <1>4, <1>5, <2>1
  <2>2. CASE g # h \/ j # i
    BY <1>5, <2>2
  <2> QED
    BY <2>1, <2>2
<1> QED
  BY <1>1, <1>6, EditLoads

LEMMA DeleteMarkerLoads ==
    ASSUME ServerSyncInv, LoadedInv, NEW h \in Hosts, NEW i \in Files, DeleteMarker(h, i)
    PROVE  LoadedInv'
<1>1. PICK u : parent' = [parent EXCEPT ![h][i] = u]
  BY DEF DeleteMarker
<1>2. /\ unseen' = unseen \cup {h}
      /\ UNCHANGED <<server, sync, managed, backups, loaded, hand, shared>>
  BY DEF DeleteMarker
<1>3. \A g \in Hosts \ {h} : parent'[g] = parent[g]
  BY <1>1, InvParts DEF ServerSyncTypeOK
<1>4. \A g \in Trusted' : g \in Hosts \ {h}
  BY <1>2 DEF Trusted
<1> QED
  BY <1>2, <1>3, <1>4, EditLoads

\* Changes of the rows, which move no request and no file.
LEMMA RowsLoad ==
    ASSUME LoadedInv, UNCHANGED <<sync, hostVars, shared>>, unseen \subseteq unseen',
           KnownInv', UniqueInv',
           \A s \in Servers : server'[s].state = "live" /\ server'[s].status = "SYNCED"
                                /\ server'[s].host \in Trusted' =>
             /\ LiveServer(s) /\ server[s].status = "SYNCED"
             /\ server[s].host = server'[s].host
    PROVE  LoadedInv'
<1>1. Trusted' \subseteq Trusted
  BY DEF Trusted
<1>2. ShapeInv'
  BY LoadedParts DEF ShapeInv
<1>3. \A q, h : WorksOn(q, h)' <=> WorksOn(q, h)
  BY DEF WorksOn, Host
<1>4. ParentInv' /\ ProgressInv' /\ \A h : Loaded(h) => Loaded(h)'
  BY <1>1, <1>3, HostsKeep
<1>5. DoneInv'
  <2> SUFFICES ASSUME NEW q \in Requests, NEW d \in sync[q].done, d.ok,
                      NEW h \in Trusted', h = d.row.host
               PROVE  Loaded(h)' \/ \E p \in Requests : WorksOn(p, h)
    BY <1>3 DEF DoneInv
  <2> QED
    BY <1>1, <1>4, LoadedParts DEF DoneInv
<1>6. \A g : Busy(g)' <=> Busy(g)
  BY DEF Busy, Begun, Touched, Host
<1>7. SyncedInv'
  <2> SUFFICES ASSUME NEW s \in Servers, NEW g \in Trusted', LiveServer(s),
                      server[s].status = "SYNCED", server[s].host = g
               PROVE  Loaded(g)' \/ Busy(g)'
    BY DEF SyncedInv, LiveServer
  <2> QED
    BY <1>1, <1>4, <1>6, LoadedParts DEF SyncedInv
<1> QED
  BY <1>2, <1>4, <1>5, <1>7 DEF LoadedInv

\* Rows that were read stay known when only one server changes, and that one not at
\* all as far as a trusted host goes.
LEMMA KnownStays ==
    ASSUME LoadedInv, ServerSyncInv, UNCHANGED sync, unseen \subseteq unseen',
           \A y \in Row : Known(y) => Known(y)'
    PROVE  KnownInv'
<1> SUFFICES ASSUME NEW q \in Requests
             PROVE  /\ \A y \in sync[q].rows : Known(y)'
                    /\ \A d \in sync[q].done : Known(d.row)'
                    /\ \A y : y = sync[q].row /\ y # None => Known(y)'
  BY DEF KnownInv
<1>1. sync[q] \in Sync
  BY RowsOf
<1> QED
  BY <1>1, LoadedParts DEF KnownInv, Sync

LEMMA EnableLoads ==
    ASSUME ServerSyncInv, LoadedInv, NEW s \in Servers, EnableServer(s)
    PROVE  LoadedInv'
<1>1. /\ server' = [server EXCEPT ![s].enabled = ~server[s].enabled]
      /\ UNCHANGED <<sync, hostVars, history>>
  BY DEF EnableServer
<1>2. \A t \in Servers : /\ server'[t].state = server[t].state /\ server'[t].host = server[t].host
                         /\ server'[t].status = server[t].status
  BY <1>1, InvParts DEF ServerSyncTypeOK, Server
<1>3. \A y \in Row : Known(y) => Known(y)'
  BY <1>1, <1>2 DEF Known, LiveServer, Row, history
<1>4. KnownInv'
  BY <1>1, <1>3, KnownStays DEF history
<1>5. UniqueInv'
  BY <1>2, LoadedParts DEF UniqueInv, LiveServer
<1> QED
  BY <1>1, <1>2, <1>4, <1>5, RowsLoad DEF history, LiveServer

LEMMA AssignLoads ==
    ASSUME ServerSyncInv, LoadedInv, NEW s \in Servers, NEW role \in Roles,
           AssignRole(s, role)
    PROVE  LoadedInv'
<1>1. /\ server' = [server EXCEPT ![s].role = role]
      /\ UNCHANGED <<sync, hostVars, history>>
  BY DEF AssignRole
<1>2. \A t \in Servers : /\ server'[t].state = server[t].state /\ server'[t].host = server[t].host
                         /\ server'[t].status = server[t].status
  BY <1>1, InvParts DEF ServerSyncTypeOK, Server
<1>3. \A y \in Row : Known(y) => Known(y)'
  BY <1>1, <1>2 DEF Known, LiveServer, Row, history
<1>4. KnownInv'
  BY <1>1, <1>3, KnownStays DEF history
<1>5. UniqueInv'
  BY <1>2, LoadedParts DEF UniqueInv, LiveServer
<1> QED
  BY <1>1, <1>2, <1>4, <1>5, RowsLoad DEF history, LiveServer

LEMMA DeleteLoads ==
    ASSUME ServerSyncInv, LoadedInv, NEW s \in Servers, DeleteServer(s)
    PROVE  LoadedInv'
<1>1. /\ server' = [server EXCEPT ![s].state = "deleted"]
      /\ UNCHANGED <<sync, hostVars, hand, shared>> /\ unseen' = unseen \cup {server[s].host}
  BY DEF DeleteServer
<1>2. /\ server'[s].state = "deleted" /\ server'[s].host = server[s].host
      /\ \A t \in Servers : t # s => server'[t] = server[t]
  BY <1>1, InvParts DEF ServerSyncTypeOK, Server
<1>3. \A y \in Row : Known(y) => Known(y)'
  BY <1>1, <1>2 DEF Known, LiveServer, Row
<1>4. KnownInv'
  BY <1>1, <1>3, KnownStays
<1>5. UniqueInv'
  BY <1>2, LoadedParts DEF UniqueInv, LiveServer
<1>6. \A t \in Servers : server'[t].state = "live" => server'[t] = server[t]
  BY <1>2
<1> QED
  BY <1>1, <1>4, <1>5, <1>6, RowsLoad DEF LiveServer

LEMMA CreateLoads ==
    ASSUME ServerSyncInv, LoadedInv, NEW s \in Servers, NEW h \in Hosts, NEW role \in Roles,
           CreateServer(s, h, role)
    PROVE  LoadedInv'
<1>1. /\ server' = [server EXCEPT ![s] = [state |-> "live", host |-> h, role |-> role,
                                          enabled |-> TRUE, status |-> "never"]]
      /\ server[s].state = "unborn" /\ Free(h)
      /\ UNCHANGED <<sync, hostVars, history>>
  BY DEF CreateServer
<1>2. /\ server'[s].state = "live" /\ server'[s].host = h /\ server'[s].status = "never"
      /\ \A t \in Servers : t # s => server'[t] = server[t]
  BY <1>1, InvParts DEF ServerSyncTypeOK
<1>3. \A y \in Row : Known(y) => Known(y)'
  BY <1>1, <1>2 DEF Known, LiveServer, Row, history
<1>4. KnownInv'
  BY <1>1, <1>3, KnownStays DEF history
<1>5. UniqueInv'
  BY <1>1, <1>2, LoadedParts DEF UniqueInv, LiveServer, Free
<1>6. \A t \in Servers : server'[t].status = "SYNCED" => server'[t] = server[t]
  BY <1>2
<1> QED
  BY <1>1, <1>4, <1>5, <1>6, RowsLoad DEF LiveServer, history

LEMMA MoveLoads ==
    ASSUME ServerSyncInv, LoadedInv, NEW s \in Servers, NEW h \in Hosts, MoveServer(s, h)
    PROVE  LoadedInv'
<1>1. /\ server' = [server EXCEPT ![s].host = h] /\ LiveServer(s) /\ Free(h)
      /\ UNCHANGED <<sync, hostVars, hand, shared>> /\ unseen' = unseen \cup {server[s].host, h}
  BY DEF MoveServer
<1>2. /\ server'[s].state = "live" /\ server'[s].host = h
      /\ \A t \in Servers : t # s => server'[t] = server[t]
  BY <1>1, InvParts DEF ServerSyncTypeOK, Server, LiveServer
<1>3. \A y \in Row : Known(y) => Known(y)'
  BY <1>1, <1>2 DEF Known, LiveServer, Row
<1>4. KnownInv'
  BY <1>1, <1>3, KnownStays
<1>5. UniqueInv'
  BY <1>1, <1>2, LoadedParts DEF UniqueInv, LiveServer, Free
<1>6. \A t \in Servers : server'[t].host \in Trusted' => server'[t] = server[t]
  BY <1>1, <1>2 DEF Trusted
<1> QED
  BY <1>1, <1>4, <1>5, <1>6, RowsLoad DEF LiveServer

-----------------------------------------------------------------------------
(* All steps. *)

LEMMA LoadedInitially == ServerSyncInit => LoadedInv
<1> SUFFICES ASSUME ServerSyncInit PROVE LoadedInv
  OBVIOUS
<1> USE DEF ServerSyncInit
<1>1. \A r \in Requests : sync[r] = Idle
  OBVIOUS
<1>2. ShapeInv /\ KnownInv /\ DoneInv /\ ProgressInv
  BY <1>1 DEF ShapeInv, KnownInv, DoneInv, ProgressInv, WorksOn, Idle, Working
<1>3. ParentInv
  BY ServerSyncAssumption DEF ParentInv, Plain, Trusted
<1>4. UniqueInv
  BY ServerSyncAssumption DEF UniqueInv, LiveServer
<1>5. SyncedInv
  BY DEF SyncedInv
<1> QED
  BY <1>2, <1>3, <1>4, <1>5 DEF LoadedInv

LEMMA RequestLoads ==
    ASSUME ServerSyncInv, LoadedInv, ServerSyncInv', NEW r \in Requests,
           \/ SyncAll(r) \/ \E s \in Servers : SyncServer(r, s)
           \/ SyncStep(r)
           \/ Disconnect(r) \/ CommandFails(r)
    PROVE  LoadedInv'
<1>1. CASE SyncAll(r)
  BY <1>1, SyncAllLoads
<1>2. ASSUME NEW s \in Servers, SyncServer(r, s) PROVE LoadedInv'
  BY <1>2, SyncServerLoads
<1>3. CASE Connect(r) \/ Open(r) \/ Write(r)
  BY <1>3, ConnectLoads, OpenLoads, WriteLoads
<1>4. CASE Read(r) \/ Backup(r) \/ Truncate(r) \/ Fill(r)
  BY <1>4, ReadLoads, BackupLoads, TruncateLoads, FillLoads
<1>5. CASE Reload(r) \/ Report(r) \/ Commit(r)
  BY <1>5, ReloadLoads, ReportAllLoads, ReportOneLoads, CommitLoads
<1>6. CASE Disconnect(r) \/ CommandFails(r)
  BY <1>6, DisconnectLoads, CommandFailsLoads
<1> QED
  BY <1>1, <1>2, <1>3, <1>4, <1>5, <1>6 DEF SyncStep

LEMMA NextLoads ==
    ServerSyncInv /\ LoadedInv /\ ServerSyncInv' /\ [ServerSyncNext]_vars => LoadedInv'
<1> SUFFICES ASSUME ServerSyncInv, LoadedInv, ServerSyncInv', [ServerSyncNext]_vars
             PROVE  LoadedInv'
  OBVIOUS
<1>1. ASSUME NEW r \in Requests,
             \/ SyncAll(r) \/ \E s \in Servers : SyncServer(r, s)
             \/ SyncStep(r)
             \/ Disconnect(r) \/ CommandFails(r)
      PROVE  LoadedInv'
  BY <1>1, RequestLoads
<1>2. CASE Restart \/ AbortVictim
  BY <1>2, RestartLoads
<1>3. ASSUME NEW h \in Hosts, NEW i \in Files,
             DeleteMarker(h, i) \/ \E line \in Lines : EditByHand(h, i, line)
      PROVE  LoadedInv'
  BY <1>3, DeleteMarkerLoads, EditByHandLoads
<1>4. CASE Administration
  BY <1>4, EnableLoads, AssignLoads, DeleteLoads, CreateLoads, MoveLoads DEF Administration
<1>5. CASE UNCHANGED vars
  BY <1>5, EditLoads DEF vars
<1> QED
  BY <1>1, <1>2, <1>3, <1>4, <1>5 DEF ServerSyncNext

-----------------------------------------------------------------------------
(* The results. *)

\* Every command of a synchronisation leaves what the next one relies on: the files
\* of one request, one block in each parent and what Asterisk has loaded of them, on
\* every host to which nothing happened that no row shows.
THEOREM LoadedInvariance == ServerSyncSpec => []LoadedInv
<1>1. ServerSyncInit => LoadedInv
  BY LoadedInitially
<1>2. ServerSyncInv /\ LoadedInv /\ ServerSyncInv' /\ [ServerSyncNext]_vars => LoadedInv'
  BY NextLoads
<1> QED
  BY <1>1, <1>2, ServerSyncInvariance, PTL DEF ServerSyncSpec

\* A server whose row says SYNCED has loaded the files of one synchronisation, each
\* included once, however many requests, failures and restarts came before
\* (server_management.py:191-208, :294-319).
THEOREM SyncedIsLoadedTheorem == ServerSyncSpec => []SyncedIsLoaded
<1>1. ServerSyncInv /\ LoadedInv => SyncedIsLoaded
  <2> SUFFICES ASSUME ServerSyncInv, LoadedInv, NEW s \in Servers, LiveServer(s),
                      server[s].status = "SYNCED",
                      server[s].host \notin unseen \cup shared, ~Busy(server[s].host)
               PROVE  Loaded(server[s].host)
    BY DEF SyncedIsLoaded
  <2>1. server[s].host \in Hosts
    BY InvParts DEF LiveInv, ServerSyncTypeOK, Server
  <2> QED
    BY <2>1, LoadedParts DEF SyncedInv, Trusted
<1> QED
  BY <1>1, LoadedInvariance, ServerSyncInvariance, PTL
=============================================================================
