-------------------------- MODULE BootstrapProofs ---------------------------
(***************************************************************************)
(* What any number of instances of the service do to one recording.txt.    *)
(***************************************************************************)
EXTENDS Bootstrap, SequenceFacts

Entry == Nat \X Shell

\* process_speech(), given text t: what it writes and what it leaves in the
\* buffer are the buffer u and, if it is dictated, the text, and the file d is
\* only added to.
Extends(d, u, t, says, on, result) ==
  /\ result.saving \in BOOLEAN
  /\ result.written \in Seq(Entry) /\ result.unsaved \in Seq(Entry)
  /\ result.written \o result.unsaved = IF Dictates(says, on) THEN Append(u, t) ELSE u
  /\ FileAfter(d, result) = d \o result.written /\ FileAfter(d, result) \in Seq(Entry)
  /\ FileAfter(d, result) \o result.unsaved =
       IF Dictates(says, on) THEN Append(d \o u, t) ELSE d \o u

LEMMA ProcessedExtends ==
  ASSUME NEW d \in Seq(Entry), NEW u \in Seq(Entry), NEW t \in Entry, NEW says,
         NEW on \in BOOLEAN, NEW result \in Processed(t, says, on, u)
  PROVE  Extends(d, u, t, says, on, result)
<1>1. FileAfter(d, result) = d \o result.written
  BY DEF FileAfter, Opened
<1>2. CASE Dictates(says, on)
  <2> DEFINE all == Append(u, t)
  <2>1. PICK k \in 0 .. Len(all) :
          result = [saving |-> TRUE, opens |-> FALSE,
                    unsaved |-> SubSeq(all, k + 1, Len(all)),
                    written |-> SubSeq(all, 1, k)]
    BY <1>2, Zenon DEF Processed, Dictates
  <2>2. all \in Seq(Entry) /\ d \o all = Append(d \o u, t)
    BY AppendToConcat, AppendProperties
  <2> HIDE DEF all
  <2>3. /\ SubSeq(all, 1, k) \in Seq(Entry) /\ SubSeq(all, k + 1, Len(all)) \in Seq(Entry)
        /\ SubSeq(all, 1, k) \o SubSeq(all, k + 1, Len(all)) = all
        /\ (d \o SubSeq(all, 1, k)) \o SubSeq(all, k + 1, Len(all)) = d \o all
    BY <2>2, CutAnywhere, CutAfter
  <2>4. d \o SubSeq(all, 1, k) \in Seq(Entry)
    BY <2>3, ConcatProperties
  <2>5. result.saving /\ result.written = SubSeq(all, 1, k)
        /\ result.unsaved = SubSeq(all, k + 1, Len(all))
    BY <2>1
  <2> QED BY <1>1, <1>2, <2>2, <2>3, <2>4, <2>5 DEF Extends, all
<1>3. CASE ~Dictates(says, on)
  <2> DEFINE opens == ~on /\ says = "start recording"
  <2>1. opens \in BOOLEAN
    OBVIOUS
  <2>2. Processed(t, says, on, u) =
          {[saving |-> opens, opens |-> opens, unsaved |-> <<>>, written |-> u]}
    BY <1>3, Zenon DEF Processed, Dictates
  <2> HIDE DEF opens
  <2>3. result.unsaved = <<>> /\ result.written = u /\ result.saving = opens
    BY <2>2
  <2>4. u \o <<>> = u /\ <<>> \in Seq(Entry) /\ d \o u \in Seq(Entry)
        /\ (d \o u) \o <<>> = d \o u
    BY ConcatEmptySeq, ConcatProperties
  <2> QED BY <1>1, <1>3, <2>1, <2>3, <2>4 DEF Extends
<1> QED BY <1>2, <1>3

\* All texts of u are of shell s.
Mine(s, u) == \A k \in DOMAIN u : u[k][2] = s

Rising(u) == \A j, k \in DOMAIN u : j < k => u[j][1] < u[k][1]

\* The texts of each shell are in order in d.
Rows(d) ==
  \A j, k \in DOMAIN d : j < k /\ d[j][2] = d[k][2] => d[j][1] < d[k][1]

\* The texts of u come after those of shell s in d.
After(d, s, u) ==
  \A j \in DOMAIN d, k \in DOMAIN u : d[j][2] = s => d[j][1] < u[k][1]

\* The texts of shell s in d are of utterances before n.
Below(d, s, n) == \A k \in DOMAIN d : d[k][2] = s => d[k][1] < n

ShellInv(s) ==
  /\ next[s] <= heard + 1
  /\ Mine(s, unsaved[s]) /\ Rising(unsaved[s]) /\ After(disk, s, unsaved[s])
  /\ Below(disk, s, next[s]) /\ Below(unsaved[s], s, next[s])

BootTypes ==
  /\ heard \in Nat /\ next \in [Shell -> Nat]
  /\ saving \in [Shell -> BOOLEAN] /\ unsaved \in [Shell -> Seq(Entry)]
  /\ disk \in Seq(Entry)

OrderInv == BootTypes /\ Rows(disk) /\ \A s \in Shell : ShellInv(s)
-----------------------------------------------------------------------------
(* Sequences of texts.                                                     *)

LEMMA Concatenated ==
  ASSUME NEW d \in Seq(Entry), NEW w \in Seq(Entry)
  PROVE  /\ d \o w \in Seq(Entry)
         /\ Len(d) \in Nat /\ Len(w) \in Nat
         /\ DOMAIN (d \o w) = 1 .. Len(d) + Len(w)
         /\ DOMAIN d = 1 .. Len(d) /\ DOMAIN w = 1 .. Len(w)
         /\ \A k \in DOMAIN d : (d \o w)[k] = d[k]
         /\ \A k \in DOMAIN w : (d \o w)[Len(d) + k] = w[k]
         /\ \A k \in DOMAIN (d \o w) :
              \/ k \in DOMAIN d /\ (d \o w)[k] = d[k]
              \/ k - Len(d) \in DOMAIN w /\ (d \o w)[k] = w[k - Len(d)]
BY ConcatProperties

\* Both parts of a text that is split are of the same shell and in order.
LEMMA SplitKeeps ==
  ASSUME NEW s, NEW w \in Seq(Entry), NEW b \in Seq(Entry),
         Mine(s, w \o b), Rising(w \o b)
  PROVE  /\ Mine(s, w) /\ Rising(w) /\ Mine(s, b) /\ Rising(b)
         /\ \A j \in DOMAIN w, k \in DOMAIN b : w[j][1] < b[k][1]
<1> DEFINE c == w \o b
<1>1. /\ Len(w) \in Nat /\ Len(b) \in Nat
      /\ DOMAIN c = 1 .. Len(w) + Len(b)
      /\ DOMAIN w = 1 .. Len(w) /\ DOMAIN b = 1 .. Len(b)
      /\ \A k \in DOMAIN w : c[k] = w[k]
      /\ \A k \in DOMAIN b : c[Len(w) + k] = b[k]
  BY Concatenated
<1>2. Mine(s, c) /\ Rising(c)
  OBVIOUS
<1> HIDE DEF c
<1>3. \A k \in DOMAIN w : k \in DOMAIN c
  BY <1>1
<1>4. \A k \in DOMAIN b : Len(w) + k \in DOMAIN c
  BY <1>1
<1>5. Mine(s, w) /\ Rising(w)
  BY <1>1, <1>2, <1>3 DEF Mine, Rising
<1>6. Mine(s, b)
  BY <1>1, <1>2, <1>4 DEF Mine
<1>7. Rising(b)
  <2> SUFFICES ASSUME NEW j \in DOMAIN b, NEW k \in DOMAIN b, j < k
               PROVE  b[j][1] < b[k][1]
    BY DEF Rising
  <2>1. Len(w) + j < Len(w) + k
    BY <1>1
  <2> QED BY <1>1, <1>2, <1>4, <2>1 DEF Rising
<1>8. ASSUME NEW j \in DOMAIN w, NEW k \in DOMAIN b
      PROVE  w[j][1] < b[k][1]
  <2>1. j < Len(w) + k
    BY <1>1
  <2> QED BY <1>1, <1>2, <1>3, <1>4, <2>1 DEF Rising
<1> QED BY <1>5, <1>6, <1>7, <1>8

\* Texts of shell s are written: those of all shells stay in order.
LEMMA WriteKeepsRows ==
  ASSUME NEW s, NEW d \in Seq(Entry), NEW w \in Seq(Entry),
         Rows(d), Mine(s, w), Rising(w), After(d, s, w)
  PROVE  Rows(d \o w)
<1> DEFINE f == d \o w
<1>1. /\ Len(d) \in Nat /\ DOMAIN f = 1 .. Len(d) + Len(w)
      /\ DOMAIN d = 1 .. Len(d) /\ DOMAIN w = 1 .. Len(w) /\ Len(w) \in Nat
      /\ \A k \in DOMAIN f : \/ k \in DOMAIN d /\ f[k] = d[k]
                             \/ k - Len(d) \in DOMAIN w /\ f[k] = w[k - Len(d)]
  BY Concatenated
<1> HIDE DEF f
<1>2. ASSUME NEW j \in DOMAIN f, NEW k \in DOMAIN f, j < k, f[j][2] = f[k][2]
      PROVE  f[j][1] < f[k][1]
  <2>1. CASE k \in DOMAIN d /\ f[k] = d[k]
    <3>1. j \in DOMAIN d /\ f[j] = d[j]
      BY <2>1, <1>1, <1>2
    <3> QED BY <2>1, <3>1, <1>2 DEF Rows
  <2>2. CASE k - Len(d) \in DOMAIN w /\ f[k] = w[k - Len(d)]
    <3>1. f[k][2] = s
      BY <2>2 DEF Mine
    <3>2. CASE j \in DOMAIN d /\ f[j] = d[j]
      BY <3>1, <3>2, <2>2, <1>2 DEF After
    <3>3. CASE j - Len(d) \in DOMAIN w /\ f[j] = w[j - Len(d)]
      <4>1. j - Len(d) < k - Len(d)
        BY <1>1, <1>2
      <4> QED BY <3>3, <2>2, <4>1 DEF Rising
    <3> QED BY <3>2, <3>3, <1>1
  <2> QED BY <2>1, <2>2, <1>1
<1>3. Rows(f)
  BY <1>2 DEF Rows
<1> QED BY <1>3 DEF f

\* What comes after, or before, the texts of a shell in d and in w does so in
\* both together.
LEMMA WriteKeepsAfter ==
  ASSUME NEW d \in Seq(Entry), NEW w \in Seq(Entry), NEW t, NEW u,
         After(d, t, u), After(w, t, u)
  PROVE  After(d \o w, t, u)
BY Concatenated DEF After

LEMMA WriteKeepsBelow ==
  ASSUME NEW d \in Seq(Entry), NEW w \in Seq(Entry), NEW t, NEW n,
         Below(d, t, n), Below(w, t, n)
  PROVE  Below(d \o w, t, n)
BY Concatenated DEF Below

\* A text that is appended comes last.
LEMMA AppendKeeps ==
  ASSUME NEW s \in Shell, NEW n \in Nat, NEW d \in Seq(Entry), NEW u \in Seq(Entry),
         Mine(s, u), Rising(u), After(d, s, u), Below(d, s, n), Below(u, s, n)
  PROVE  /\ Append(u, <<n, s>>) \in Seq(Entry)
         /\ Mine(s, Append(u, <<n, s>>)) /\ Rising(Append(u, <<n, s>>))
         /\ After(d, s, Append(u, <<n, s>>)) /\ Below(Append(u, <<n, s>>), s, n + 1)
<1> DEFINE c == Append(u, <<n, s>>)
<1>1. <<n, s>> \in Entry /\ <<n, s>>[1] = n /\ <<n, s>>[2] = s
  BY DEF Entry
<1>2. /\ c \in Seq(Entry) /\ Len(u) \in Nat
      /\ DOMAIN c = 1 .. Len(u) + 1 /\ DOMAIN u = 1 .. Len(u)
      /\ (\A k \in DOMAIN u : c[k] = u[k]) /\ c[Len(u) + 1] = <<n, s>>
  BY <1>1, AppendProperties
<1>3. \A k \in DOMAIN u : u[k][1] \in Nat
  BY DEF Entry
<1> HIDE DEF c
<1>4. Mine(s, c)
  <2> SUFFICES ASSUME NEW k \in DOMAIN c
               PROVE  c[k][2] = s
    BY DEF Mine
  <2>1. CASE k \in DOMAIN u
    BY <2>1, <1>2 DEF Mine
  <2>2. CASE k = Len(u) + 1
    BY <2>2, <1>1, <1>2
  <2> QED BY <2>1, <2>2, <1>2
<1>5. \A k \in DOMAIN u : u[k][1] < n
  BY DEF Mine, Below
<1>6. Rising(c)
  <2> SUFFICES ASSUME NEW j \in DOMAIN c, NEW k \in DOMAIN c, j < k
               PROVE  c[j][1] < c[k][1]
    BY DEF Rising
  <2>1. j \in DOMAIN u
    BY <1>2
  <2>2. CASE k \in DOMAIN u
    BY <2>1, <2>2, <1>2 DEF Rising
  <2>3. CASE k = Len(u) + 1
    BY <2>1, <2>3, <1>1, <1>2, <1>5
  <2> QED BY <2>2, <2>3, <1>2
<1>7. After(d, s, c)
  <2> SUFFICES ASSUME NEW j \in DOMAIN d, NEW k \in DOMAIN c, d[j][2] = s
               PROVE  d[j][1] < c[k][1]
    BY DEF After
  <2>1. CASE k \in DOMAIN u
    BY <2>1, <1>2 DEF After
  <2>2. CASE k = Len(u) + 1
    BY <2>2, <1>1, <1>2 DEF Below
  <2> QED BY <2>1, <2>2, <1>2
<1>8. Below(c, s, n + 1)
  <2> SUFFICES ASSUME NEW k \in DOMAIN c
               PROVE  c[k][1] < n + 1
    BY DEF Below
  <2>1. CASE k \in DOMAIN u
    BY <2>1, <1>2, <1>3, <1>5
  <2>2. CASE k = Len(u) + 1
    BY <2>2, <1>1, <1>2
  <2> QED BY <2>1, <2>2, <1>2
<1> QED BY <1>2, <1>4, <1>6, <1>7, <1>8 DEF c

\* Texts of shell s go to the file up to any of them, the others stay.
Written(s, d, w, b, n) ==
  /\ d \o w \in Seq(Entry) /\ Rows(d \o w) /\ Mine(s, w)
  /\ Mine(s, b) /\ Rising(b) /\ After(d \o w, s, b)
  /\ Below(d \o w, s, n) /\ Below(b, s, n)

LEMMA WriteKeeps ==
  ASSUME NEW s, NEW n, NEW d \in Seq(Entry), NEW w \in Seq(Entry),
         NEW b \in Seq(Entry), Rows(d), Mine(s, w \o b), Rising(w \o b),
         After(d, s, w \o b), Below(d, s, n), Below(w \o b, s, n)
  PROVE  Written(s, d, w, b, n)
<1>1. /\ Mine(s, w) /\ Rising(w) /\ Mine(s, b) /\ Rising(b)
      /\ \A j \in DOMAIN w, k \in DOMAIN b : w[j][1] < b[k][1]
  BY SplitKeeps
<1>2. After(d, s, w) /\ After(d, s, b) /\ Below(w, s, n) /\ Below(b, s, n)
  <2> DEFINE c == w \o b
  <2>1. /\ Len(w) \in Nat /\ Len(b) \in Nat
        /\ DOMAIN c = 1 .. Len(w) + Len(b)
        /\ DOMAIN w = 1 .. Len(w) /\ DOMAIN b = 1 .. Len(b)
        /\ \A k \in DOMAIN w : c[k] = w[k]
        /\ \A k \in DOMAIN b : c[Len(w) + k] = b[k]
    BY Concatenated
  <2>2. After(d, s, c) /\ Below(c, s, n)
    OBVIOUS
  <2> HIDE DEF c
  <2>3. \A k \in DOMAIN w : k \in DOMAIN c
    BY <2>1
  <2>4. \A k \in DOMAIN b : Len(w) + k \in DOMAIN c
    BY <2>1
  <2>5. After(d, s, w) /\ Below(w, s, n)
    BY <2>1, <2>2, <2>3 DEF After, Below
  <2>6. After(d, s, b) /\ Below(b, s, n)
    BY <2>1, <2>2, <2>4 DEF After, Below
  <2> QED BY <2>5, <2>6
<1>3. After(w, s, b)
  BY <1>1 DEF After
<1>4. d \o w \in Seq(Entry)
  BY ConcatProperties
<1>5. Rows(d \o w)
  BY <1>1, <1>2, WriteKeepsRows
<1>6. After(d \o w, s, b) /\ Below(d \o w, s, n)
  BY <1>2, <1>3, WriteKeepsAfter, WriteKeepsBelow
<1> QED BY <1>1, <1>2, <1>4, <1>5, <1>6 DEF Written

\* What is written of shell s is nothing to another shell.
LEMMA OthersKeep ==
  ASSUME NEW s, NEW t, s # t, NEW u, NEW n,
         NEW d \in Seq(Entry), NEW w \in Seq(Entry), Mine(s, w),
         After(d, t, u), Below(d, t, n)
  PROVE  After(d \o w, t, u) /\ Below(d \o w, t, n)
<1>1. After(w, t, u) /\ Below(w, t, n)
  BY DEF Mine, After, Below
<1> QED BY <1>1, WriteKeepsAfter, WriteKeepsBelow
-----------------------------------------------------------------------------
(* The steps of the shells.                                                *)

LEMMA InitOrder == Init => OrderInv
<1> SUFFICES ASSUME Init PROVE OrderInv
  OBVIOUS
<1>1. BootTypes
  <2>1. <<>> \in Seq(Entry)
    OBVIOUS
  <2> QED BY <2>1 DEF Init, BootTypes
<1>2. Rows(disk)
  BY DEF Init, Rows
<1>3. ASSUME NEW s \in Shell PROVE ShellInv(s)
  <2>1. next[s] = 1 /\ heard = 0 /\ unsaved[s] = <<>> /\ disk = <<>>
    BY DEF Init
  <2> QED BY <2>1 DEF ShellInv, Mine, Rising, After, Below
<1> QED BY <1>1, <1>2, <1>3 DEF OrderInv

\* A bound on the utterances of a shell may be raised.
LEMMA BelowMore ==
  ASSUME NEW s, NEW n \in Nat, NEW m \in Nat, n <= m, NEW u \in Seq(Entry),
         Below(u, s, n)
  PROVE  Below(u, s, m)
<1>1. \A k \in DOMAIN u : u[k][1] \in Nat
  BY DEF Entry
<1> QED BY <1>1 DEF Below

\* Steps that write nothing and leave the buffers alone.
LEMMA QuietKeeps ==
  ASSUME OrderInv, BootTypes', disk' = disk, unsaved' = unsaved, heard <= heard',
         \A s \in Shell : next'[s] = next[s] \/ next'[s] = heard' + 1
  PROVE  OrderInv'
<1>1. Rows(disk')
  BY DEF OrderInv
<1>2. ASSUME NEW s \in Shell PROVE ShellInv(s)'
  <2>1. /\ heard \in Nat /\ heard' \in Nat /\ next[s] \in Nat /\ next'[s] \in Nat
        /\ unsaved[s] \in Seq(Entry) /\ disk \in Seq(Entry)
    BY DEF OrderInv, BootTypes
  <2>2. ShellInv(s)
    BY DEF OrderInv
  <2>3. next[s] <= next'[s] /\ next'[s] <= heard' + 1
    BY <2>1, <2>2 DEF ShellInv
  <2>4. Below(disk, s, next'[s]) /\ Below(unsaved[s], s, next'[s])
    BY <2>1, <2>2, <2>3, BelowMore DEF ShellInv
  <2> QED BY <2>2, <2>3, <2>4 DEF ShellInv
<1> QED BY <1>1, <1>2 DEF OrderInv

\* A step in which shell s writes w, keeps b and has acted on what is before n.
LEMMA WriterKeeps ==
  ASSUME OrderInv, NEW s \in Shell, NEW w \in Seq(Entry), NEW b \in Seq(Entry),
         NEW n \in Nat, n <= heard + 1, heard' = heard, saving' \in [Shell -> BOOLEAN],
         Mine(s, w \o b), Rising(w \o b), After(disk, s, w \o b),
         Below(disk, s, n), Below(w \o b, s, n), disk' = disk \o w,
         unsaved' = [unsaved EXCEPT ![s] = b], next' = [next EXCEPT ![s] = n]
  PROVE  OrderInv'
<1>1. /\ heard \in Nat /\ next \in [Shell -> Nat]
      /\ unsaved \in [Shell -> Seq(Entry)] /\ disk \in Seq(Entry)
  BY DEF OrderInv, BootTypes
<1>2. Rows(disk)
  BY DEF OrderInv
<1>3. Written(s, disk, w, b, n)
  BY <1>1, <1>2, WriteKeeps
<1>4. BootTypes' /\ Rows(disk')
  BY <1>1, <1>3 DEF Written, BootTypes
<1>5. unsaved'[s] = b /\ next'[s] = n
  BY <1>1
<1>6. ShellInv(s)'
  BY <1>3, <1>5 DEF ShellInv, Written
<1>7. ASSUME NEW t \in Shell, s # t PROVE ShellInv(t)'
  <2>1. unsaved'[t] = unsaved[t] /\ next'[t] = next[t] /\ ShellInv(t)
    BY <1>1, <1>7 DEF OrderInv
  <2>2. After(disk, t, unsaved[t]) /\ Below(disk, t, next[t]) /\ Mine(s, w)
    BY <2>1, <1>3 DEF ShellInv, Written
  <2>3. After(disk \o w, t, unsaved[t]) /\ Below(disk \o w, t, next[t])
    BY <2>2, <1>1, <1>7, OthersKeep
  <2> QED BY <2>1, <2>3 DEF ShellInv
<1> QED BY <1>4, <1>6, <1>7 DEF OrderInv

LEMMA TranscribeKeeps ==
  ASSUME OrderInv, NEW s \in Shell, Transcribe(s)
  PROVE  OrderInv'
<1> DEFINE u == unsaved[s]
           n == next[s]
<1>1. /\ heard \in Nat /\ n \in Nat /\ n <= heard /\ heard' = heard
      /\ saving \in [Shell -> BOOLEAN] /\ saving[s] \in BOOLEAN
      /\ u \in Seq(Entry) /\ disk \in Seq(Entry) /\ <<n, s>> \in Entry
      /\ next' = [next EXCEPT ![s] = n + 1]
  BY DEF OrderInv, BootTypes, Transcribe, Entry
<1>0. PICK says \in Says :
        \E result \in Processed(<<n, s>>, says, saving[s], u) :
          /\ saving' = [saving EXCEPT ![s] = result.saving]
          /\ unsaved' = [unsaved EXCEPT ![s] = result.unsaved]
          /\ disk' = FileAfter(disk, result)
  BY Zenon DEF Transcribe
<1>2. PICK result \in Processed(<<n, s>>, says, saving[s], u) :
        /\ saving' = [saving EXCEPT ![s] = result.saving]
        /\ unsaved' = [unsaved EXCEPT ![s] = result.unsaved]
        /\ disk' = FileAfter(disk, result)
  BY <1>0, Zenon
<1> DEFINE w == result.written
           b == result.unsaved
<1>3. Extends(disk, u, <<n, s>>, says, saving[s], result)
  BY <1>1, ProcessedExtends
<1>4. /\ w \in Seq(Entry) /\ b \in Seq(Entry) /\ result.saving \in BOOLEAN
      /\ \/ w \o b = Append(u, <<n, s>>)
         \/ w \o b = u
  BY <1>3 DEF Extends
<1>5. disk' = disk \o w
  BY <1>2 DEF FileAfter, Opened
<1>6. saving' \in [Shell -> BOOLEAN] /\ unsaved' = [unsaved EXCEPT ![s] = b]
  <2>1. result.saving \in BOOLEAN
    BY <1>4
  <2> QED BY <2>1, <1>1, <1>2
<1>7. /\ Mine(s, u) /\ Rising(u) /\ After(disk, s, u)
      /\ Below(disk, s, n) /\ Below(u, s, n)
  BY DEF OrderInv, ShellInv
<1> HIDE DEF u, n, w, b
<1>8. Below(disk, s, n + 1) /\ Below(u, s, n + 1)
  <2>1. n <= n + 1 /\ n + 1 \in Nat
    BY <1>1
  <2> QED BY <2>1, <1>1, <1>7, BelowMore
<1>9. /\ Mine(s, w \o b) /\ Rising(w \o b) /\ After(disk, s, w \o b)
      /\ Below(w \o b, s, n + 1)
  <2>1. CASE w \o b = Append(u, <<n, s>>)
    BY <2>1, <1>1, <1>7, AppendKeeps
  <2>2. CASE w \o b = u
    BY <2>2, <1>7, <1>8
  <2> QED BY <2>1, <2>2, <1>4
<1>10. n + 1 \in Nat /\ n + 1 <= heard + 1
  BY <1>1
<1> QED BY <1>1, <1>4, <1>5, <1>6, <1>8, <1>9, <1>10, WriterKeeps

LEMMA EndServiceKeeps ==
  ASSUME OrderInv, NEW s \in Shell, EndService(s)
  PROVE  OrderInv'
<1>1. /\ unsaved[s] \in Seq(Entry) /\ <<>> \in Seq(Entry) /\ next[s] \in Nat
      /\ next = [next EXCEPT ![s] = next[s]] /\ saving \in [Shell -> BOOLEAN]
  BY DEF OrderInv, BootTypes
<1>2. unsaved[s] \o <<>> = unsaved[s]
  BY <1>1, ConcatEmptySeq
<1>3. /\ next[s] <= heard + 1 /\ Mine(s, unsaved[s]) /\ Rising(unsaved[s])
      /\ After(disk, s, unsaved[s]) /\ Below(disk, s, next[s])
      /\ Below(unsaved[s], s, next[s])
  BY DEF OrderInv, ShellInv
<1>4. /\ disk' = disk \o unsaved[s] /\ unsaved' = [unsaved EXCEPT ![s] = <<>>]
      /\ next' = next /\ saving' = saving /\ heard' = heard
  BY DEF EndService
<1> QED BY <1>1, <1>2, <1>3, <1>4, WriterKeeps

\* The terminal is closed: what was in the buffer is gone, the rest stays.
LEMMA CloseShellKeeps ==
  ASSUME OrderInv, NEW s \in Shell, CloseShell(s)
  PROVE  OrderInv'
<1>1. /\ unsaved' = [unsaved EXCEPT ![s] = <<>>] /\ disk' = disk
      /\ next' = next /\ saving' = saving /\ heard' = heard
  BY DEF CloseShell
<1>2. BootTypes' /\ unsaved'[s] = <<>>
      /\ \A t \in Shell : t # s => unsaved'[t] = unsaved[t]
  <2>1. <<>> \in Seq(Entry)
    OBVIOUS
  <2> QED BY <2>1, <1>1 DEF OrderInv, BootTypes
<1>3. ASSUME NEW t \in Shell PROVE ShellInv(t)'
  <2>1. ShellInv(t)
    BY DEF OrderInv
  <2>2. CASE t # s
    BY <2>1, <2>2, <1>1, <1>2 DEF ShellInv
  <2>3. CASE t = s
    BY <2>1, <2>3, <1>1, <1>2 DEF ShellInv, Mine, Rising, After, Below
  <2> QED BY <2>2, <2>3
<1>4. Rows(disk')
  BY <1>1 DEF OrderInv
<1> QED BY <1>2, <1>3, <1>4 DEF OrderInv

LEMMA NextOrder == OrderInv /\ [Next]_vars => OrderInv'
<1> SUFFICES ASSUME OrderInv, [Next]_vars PROVE OrderInv'
  OBVIOUS
<1>1. BootTypes
  BY DEF OrderInv
<1>2. CASE Setup
  BY <1>1, <1>2, QuietKeeps DEF Setup, instance, file, BootTypes
<1>3. CASE Speak
  <2>1. heard' \in Nat /\ heard <= heard'
    BY <1>1, <1>3 DEF Speak, BootTypes
  <2> QED BY <1>1, <1>3, <2>1, QuietKeeps DEF Speak, instance, file, BootTypes
<1>4. ASSUME NEW s \in Shell, ShellNext(s) PROVE OrderInv'
  <2>1. CASE OpenShell(s)
    BY <1>1, <2>1, QuietKeeps DEF OpenShell, instance, file, BootTypes
  <2>2. CASE StartService(s)
    <3>1. /\ heard' = heard /\ disk' = disk /\ unsaved' = unsaved
          /\ next' = [next EXCEPT ![s] = heard + 1]
          /\ saving' = [saving EXCEPT ![s] = FALSE]
      BY <2>2 DEF StartService, file
    <3>2. /\ heard \in Nat /\ heard + 1 \in Nat
          /\ next' \in [Shell -> Nat] /\ saving' \in [Shell -> BOOLEAN]
      BY <1>1, <3>1 DEF BootTypes
    <3>3. BootTypes'
      BY <1>1, <3>1, <3>2 DEF BootTypes
    <3>4. \A t \in Shell : next'[t] = next[t] \/ next'[t] = heard' + 1
      BY <1>1, <3>1 DEF BootTypes
    <3>5. heard <= heard'
      BY <3>1, <3>2
    <3> QED BY <3>1, <3>3, <3>4, <3>5, QuietKeeps
  <2>3. CASE StartFails(s)
    BY <1>1, <2>3, QuietKeeps DEF StartFails, instance, file, BootTypes
  <2>4. CASE Transcribe(s)
    BY <2>4, TranscribeKeeps
  <2>5. CASE EndService(s)
    BY <2>5, EndServiceKeeps
  <2>6. CASE CloseShell(s)
    BY <2>6, CloseShellKeeps
  <2> QED BY <1>4, <2>1, <2>2, <2>3, <2>4, <2>5, <2>6 DEF ShellNext
<1>5. CASE UNCHANGED vars
  BY <1>1, <1>5, QuietKeeps DEF vars, shell, instance, file, BootTypes
<1> QED BY <1>2, <1>3, <1>4, <1>5 DEF Next

LEMMA OrderSuffices == OrderInv => EachInOrder
<1> SUFFICES ASSUME OrderInv PROVE EachInOrder
  OBVIOUS
<1>1. Rows(disk)
  BY DEF OrderInv
<1>2. ASSUME NEW s \in Shell, NEW k \in DOMAIN unsaved[s]
      PROVE  /\ \A j \in 1 .. k - 1 : unsaved[s][j][1] < unsaved[s][k][1]
             /\ \A j \in DOMAIN disk : disk[j][2] = s => disk[j][1] < unsaved[s][k][1]
  <2>1. Rising(unsaved[s]) /\ After(disk, s, unsaved[s])
    BY DEF OrderInv, ShellInv
  <2>2. /\ Len(unsaved[s]) \in Nat /\ DOMAIN unsaved[s] = 1 .. Len(unsaved[s])
    BY DEF OrderInv, BootTypes
  <2>3. \A j \in 1 .. k - 1 : j \in DOMAIN unsaved[s] /\ j < k
    BY <2>2
  <2> QED BY <2>1, <2>3 DEF Rising, After
<1> QED BY <1>1, <1>2 DEF EachInOrder, Rows

\* However many shells and start commands there are and however their
\* instances take turns at writing, the texts of each shell are in
\* recording.txt in the order they were said and each once (main.py:20-25).
THEOREM ShellsInOrder == Spec => []EachInOrder
BY InitOrder, NextOrder, OrderSuffices, PTL DEF Spec
-----------------------------------------------------------------------------
(* Nothing is lost but by a kill.                                          *)

\* The texts in the buffers of all shells but s.
Others(u, s) == UNION {ToSet(u[t]) : t \in Shell \ {s}}

LEMMA BuffersSplit ==
  ASSUME NEW s \in Shell
  PROVE  UNION {ToSet(unsaved[t]) : t \in Shell} = ToSet(unsaved[s]) \cup Others(unsaved, s)
BY DEF Others

LEMMA OthersStay ==
  ASSUME NEW s \in Shell, NEW v, \A t \in Shell \ {s} : v[t] = unsaved[t]
  PROVE  UNION {ToSet(v[t]) : t \in Shell} = ToSet(v[s]) \cup Others(unsaved, s)
BY DEF Others

LEMMA SetOfConcat ==
  ASSUME NEW d \in Seq(Entry), NEW w \in Seq(Entry)
  PROVE  ToSet(d \o w) = ToSet(d) \cup ToSet(w)
<1> DEFINE c == d \o w
<1>1. /\ DOMAIN c = 1 .. Len(d) + Len(w) /\ Len(d) \in Nat /\ Len(w) \in Nat
      /\ DOMAIN d = 1 .. Len(d) /\ DOMAIN w = 1 .. Len(w)
      /\ \A k \in DOMAIN d : c[k] = d[k]
      /\ \A k \in DOMAIN w : c[Len(d) + k] = w[k]
      /\ \A k \in DOMAIN c : \/ k \in DOMAIN d /\ c[k] = d[k]
                             \/ k - Len(d) \in DOMAIN w /\ c[k] = w[k - Len(d)]
  BY Concatenated
<1> HIDE DEF c
<1>2. \A k \in DOMAIN d : k \in DOMAIN c
  BY <1>1
<1>3. \A k \in DOMAIN w : Len(d) + k \in DOMAIN c
  BY <1>1
<1>4. ToSet(c) \subseteq ToSet(d) \cup ToSet(w)
  BY <1>1 DEF ToSet
<1>5. ToSet(d) \subseteq ToSet(c)
  BY <1>1, <1>2 DEF ToSet
<1>6. ToSet(w) \subseteq ToSet(c)
  BY <1>1, <1>3 DEF ToSet
<1>7. ToSet(c) = ToSet(d) \cup ToSet(w)
  BY <1>4, <1>5, <1>6
<1> QED BY <1>7 DEF c

LEMMA SetOfAppend ==
  ASSUME NEW u \in Seq(Entry), NEW e \in Entry
  PROVE  ToSet(Append(u, e)) = ToSet(u) \cup {e}
<1>1. Append(u, e) = u \o <<e>> /\ <<e>> \in Seq(Entry)
  BY AppendIsConcat
<1>2. ToSet(<<e>>) = {e}
  BY DEF ToSet
<1> QED BY <1>1, <1>2, SetOfConcat

LEMMA TranscribeLosesNothing ==
  ASSUME OrderInv, KeptByAll, NEW s \in Shell, Transcribe(s)
  PROVE  KeptByAll'
<1> DEFINE u == unsaved[s]
           x == <<next[s], s>>
<1>1. /\ saving[s] \in BOOLEAN /\ u \in Seq(Entry) /\ disk \in Seq(Entry)
      /\ x \in Entry /\ unsaved \in [Shell -> Seq(Entry)] /\ killed' = killed
  BY DEF OrderInv, BootTypes, Transcribe, Entry
<1>2. PICK says \in Says :
        /\ \E result \in Processed(x, says, saving[s], u) :
             /\ saving' = [saving EXCEPT ![s] = result.saving]
             /\ unsaved' = [unsaved EXCEPT ![s] = result.unsaved]
             /\ disk' = FileAfter(disk, result)
        /\ dictated' = IF Dictates(says, saving[s]) THEN dictated \cup {x} ELSE dictated
  BY Zenon DEF Transcribe
<1>3. PICK result \in Processed(x, says, saving[s], u) :
        /\ unsaved' = [unsaved EXCEPT ![s] = result.unsaved]
        /\ disk' = FileAfter(disk, result)
  BY <1>2, Zenon
<1> DEFINE b == result.unsaved
<1>4. Extends(disk, u, x, says, saving[s], result)
  BY <1>1, ProcessedExtends
<1>5. /\ disk' \in Seq(Entry) /\ b \in Seq(Entry)
      /\ disk' \o b = IF Dictates(says, saving[s])
                      THEN Append(disk \o u, x) ELSE disk \o u
  BY <1>3, <1>4 DEF Extends
<1>6. /\ unsaved'[s] = b
      /\ \A t \in Shell \ {s} : unsaved'[t] = unsaved[t]
  BY <1>1, <1>3
<1> HIDE DEF u, x, b
<1>7. disk \o u \in Seq(Entry) /\ ToSet(disk \o u) = ToSet(disk) \cup ToSet(u)
  BY <1>1, SetOfConcat, ConcatProperties
<1>8. ToSet(disk') \cup ToSet(b) =
        ToSet(disk) \cup ToSet(u) \cup (IF Dictates(says, saving[s]) THEN {x} ELSE {})
  <2>1. ToSet(disk' \o b) = ToSet(disk') \cup ToSet(b)
    BY <1>5, SetOfConcat
  <2>2. CASE Dictates(says, saving[s])
    <3>1. disk' \o b = Append(disk \o u, x)
      BY <1>5, <2>2 DEF Dictates
    <3>2. ToSet(Append(disk \o u, x)) = ToSet(disk \o u) \cup {x}
      BY <1>1, <1>7, SetOfAppend
    <3> QED BY <2>1, <2>2, <3>1, <3>2, <1>7
  <2>3. CASE ~Dictates(says, saving[s])
    <3>1. disk' \o b = disk \o u
      BY <1>5, <2>3 DEF Dictates
    <3> QED BY <2>1, <2>3, <3>1, <1>7
  <2> QED BY <2>2, <2>3
<1>9. dictated = ToSet(disk) \cup killed \cup (ToSet(u) \cup Others(unsaved, s))
  BY BuffersSplit DEF KeptByAll, u
<1>10. UNION {ToSet(unsaved'[t]) : t \in Shell} = ToSet(b) \cup Others(unsaved, s)
  BY <1>6, OthersStay
<1>11. dictated' = ToSet(disk') \cup killed' \cup (ToSet(b) \cup Others(unsaved, s))
  <2>1. CASE Dictates(says, saving[s])
    BY <2>1, <1>1, <1>2, <1>8, <1>9
  <2>2. CASE ~Dictates(says, saving[s])
    BY <2>2, <1>1, <1>2, <1>8, <1>9
  <2> QED BY <2>1, <2>2
<1> QED BY <1>10, <1>11 DEF KeptByAll

LEMMA EndServiceLosesNothing ==
  ASSUME OrderInv, KeptByAll, NEW s \in Shell, EndService(s) \/ CloseShell(s)
  PROVE  KeptByAll'
<1>1. /\ unsaved \in [Shell -> Seq(Entry)] /\ disk \in Seq(Entry)
      /\ unsaved[s] \in Seq(Entry)
  BY DEF OrderInv, BootTypes
<1>2. unsaved' = [unsaved EXCEPT ![s] = <<>>] /\ dictated' = dictated
  BY DEF EndService, CloseShell
<1>3. unsaved'[s] = <<>> /\ \A t \in Shell \ {s} : unsaved'[t] = unsaved[t]
  BY <1>1, <1>2
<1>4. ToSet(<<>>) = {}
  BY DEF ToSet
<1>5. UNION {ToSet(unsaved'[t]) : t \in Shell} = Others(unsaved, s)
  BY <1>3, <1>4, OthersStay
<1>6. dictated = ToSet(disk) \cup killed \cup (ToSet(unsaved[s]) \cup Others(unsaved, s))
  BY BuffersSplit DEF KeptByAll
<1>7. ToSet(disk') \cup killed' = ToSet(disk) \cup killed \cup ToSet(unsaved[s])
  <2>1. CASE EndService(s)
    <3>1. disk' = disk \o unsaved[s] /\ killed' = killed
      BY <2>1 DEF EndService
    <3> QED BY <3>1, <1>1, SetOfConcat
  <2>2. CASE CloseShell(s)
    BY <2>2 DEF CloseShell
  <2> QED BY <2>1, <2>2
<1> QED BY <1>2, <1>5, <1>6, <1>7 DEF KeptByAll

LEMMA InitKept == Init => KeptByAll
<1> SUFFICES ASSUME Init PROVE KeptByAll
  OBVIOUS
<1>1. \A s \in Shell : ToSet(unsaved[s]) = {}
  BY DEF Init, ToSet
<1>2. ToSet(disk) = {} /\ dictated = {} /\ killed = {}
  BY DEF Init, ToSet
<1> QED BY <1>1, <1>2 DEF KeptByAll

LEMMA NextKept == OrderInv /\ KeptByAll /\ [Next]_vars => KeptByAll'
<1> SUFFICES ASSUME OrderInv, KeptByAll, [Next]_vars PROVE KeptByAll'
  OBVIOUS
<1>1. ASSUME UNCHANGED <<unsaved, file>> PROVE KeptByAll'
  BY <1>1 DEF KeptByAll, file
<1>2. CASE Setup \/ Speak \/ UNCHANGED vars
  BY <1>1, <1>2 DEF Setup, Speak, vars, instance
<1>3. ASSUME NEW s \in Shell, ShellNext(s) PROVE KeptByAll'
  <2>1. CASE OpenShell(s) \/ StartService(s) \/ StartFails(s)
    BY <1>1, <2>1 DEF OpenShell, StartService, StartFails, instance
  <2>2. CASE Transcribe(s)
    BY <2>2, TranscribeLosesNothing
  <2>3. CASE EndService(s) \/ CloseShell(s)
    BY <2>3, EndServiceLosesNothing
  <2> QED BY <1>3, <2>1, <2>2, <2>3 DEF ShellNext
<1> QED BY <1>2, <1>3 DEF Next

\* With any number of shells and instances, recording.txt, the buffers and the
\* texts that were killed hold exactly what was dictated: no instance
\* overwrites what another wrote (main.py:18-25).
THEOREM InstancesKeepAll == Spec => []KeptByAll
BY InitOrder, NextOrder, InitKept, NextKept, PTL DEF Spec
=============================================================================
