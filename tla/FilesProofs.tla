---------------------------- MODULE FilesProofs -----------------------------
(***************************************************************************)
(* Proofs about the files slate-setup writes, for any homes, releases,     *)
(* answers, number of runs and faults.  Binaries installed together are of *)
(* one release when its checksums name them all, and an installation that  *)
(* fails or is killed leaves the folder usable.  In a home, nothing of the *)
(* kit is left by an uninstall, and no run loses what a person wrote.      *)
(***************************************************************************)
EXTENDS Binaries, KitFiles, ListProofs

Fetching  == {"sums", "probe", "latest-sums", "fetch", "build"}
Placing   == {"write", "rename", "park", "rename-again", "put-back", "clean"}
Released  == UNION {DOMAIN s.releases \cup {s.first, s.then} : s \in Sites}
Releases  == Released \cup {"checkout"}
Pairs     == BinNames \X Releases
JobFields == {"req", "at", "base", "sums", "probed", "got", "skipped", "step", "before", "stuck"}

IsJob(j) ==
  /\ DOMAIN j = JobFields
  /\ j.req \in Requests
  /\ j.at \in Fetching \cup Placing
  /\ j.step \in Nat \ {0}
  /\ j.got \in Seq(Pairs)
  /\ j.probed = Unset \/ j.probed \in Releases

\* What was fetched: nothing before the checksums were read, then some of the
\* first names in their order, each once.
Ordered(j) ==
  /\ j.at \in Fetching \ {"fetch"} => j.got = <<>> /\ j.step = 1
  /\ j.at = "build" => j.sums = Unset
  /\ j.at = "fetch" =>
       /\ j.step <= Len(j.req.names) + 1
       /\ \A i \in 1 .. Len(j.got) : \E k \in 1 .. j.step - 1 : j.got[i][1] = j.req.names[k]
  /\ \A i, k \in 1 .. Len(j.got) : j.got[i][1] = j.got[k][1] => i = k

\* A binary that the checksums name is of their release.
OfItsRelease(j) ==
  j.sums # Unset =>
    \A i \in 1 .. Len(j.got) : j.got[i][1] \in DOMAIN j.sums.entries => j.got[i][2] = j.sums.of

\* The first n that were fetched are in the folder.
Placed(j, n) ==
  \A i \in 1 .. Len(j.got) : i <= n => j.got[i][1] \in DOMAIN folder /\ folder[j.got[i][1]] = j.got[i][2]

JobInv(j) ==
  /\ IsJob(j) /\ Ordered(j) /\ OfItsRelease(j)
  /\ j.at \in Placing => Placed(j, j.step - 1)

Done == ended # Unset /\ ended.how = "installed"

BInv ==
  /\ web \in Sites /\ newest \in {web.first, web.then}
  /\ job # Unset => JobInv(job) /\ ended = Unset
  /\ Done => IsJob(ended.job) /\ OfItsRelease(ended.job) /\ Placed(ended.job, Len(ended.job.got))

LEMMA ReleaseFound ==
    ASSUME BInv, NEW base, ReleaseAt(base) # Unset
    PROVE  ReleaseAt(base) \in Releases
  <1>1. \A x \in DOMAIN web.releases \cup {web.first, web.then} : x \in Releases
    BY DEF BInv, Releases, Released
  <1>2. ReleaseAt(base) \in DOMAIN web.releases \cup {web.first, web.then}
    BY DEF BInv, ReleaseAt
  <1> QED
    BY <1>1, <1>2

LEMMA EmptyGot == <<>> \in Seq(Pairs) /\ Len(<<>>) = 0
  BY EmptySeq

LEMMA InitBInv == BinInit => BInv
  BY DEF BinInit, BInv, Done

\* An installation that ends without success leaves nothing to show.
LEMMA EndBInv ==
    ASSUME BInv, NEW how \in {"fetching", "replacing", "killed"}, End(how, job), UNCHANGED <<web, newest>>
    PROVE  BInv'
  BY DEF BInv, End, Done

LEMMA BeginBInv ==
    ASSUME BInv, NEW req \in Requests, BeginInstall(req)
    PROVE  BInv'
  <1>1. PICK at \in {"latest-sums", "sums", "build"} : job' = Fresh(req, at)
    <2>1. CASE req.mode = "prebuilt"
      BY <2>1 DEF BeginInstall
    <2>2. CASE req.mode = "build"
      BY <2>2 DEF BeginInstall
    <2> QED
      BY <2>1, <2>2, RequestsAssumption
  <1>3. ended' = Unset /\ UNCHANGED <<web, newest, folder>>
    BY DEF BeginInstall
  <1>2. JobInv(job)'
    <2>1. job'.step = 1
      BY <1>1 DEF Fresh
    <2>2. DOMAIN job' = JobFields
      BY <1>1 DEF Fresh, JobFields
    <2>4. job'.got = <<>>
      BY <1>1 DEF Fresh
    <2>5. job'.req = req /\ job'.sums = Unset /\ job'.probed = Unset
      BY <1>1 DEF Fresh
    <2>6. job'.at = at
      BY <1>1 DEF Fresh
    <2>7. job'.at \in Fetching /\ job'.at \notin Placing /\ job'.at # "fetch"
      BY <2>6 DEF Fetching, Placing
    <2>8. job'.step \in Nat \ {0}
      BY <2>1
    <2>9. job'.got \in Seq(Pairs) /\ Len(job'.got) = 0
      BY <2>4, EmptyGot
    <2>10. 1 .. Len(job'.got) = {}
      BY <2>9
    <2>3. IsJob(job')
      BY <2>2, <2>5, <2>7, <2>8, <2>9 DEF IsJob
    <2>11. Ordered(job') /\ OfItsRelease(job')
      BY <2>1, <2>4, <2>5, <2>7, <2>10 DEF Ordered, OfItsRelease
    <2> QED
      BY <2>3, <2>7, <2>11 DEF JobInv
  <1> QED
    BY <1>2, <1>3 DEF BInv, Done

LEMMA ResolveBInv ==
    ASSUME BInv, ResolveSums \/ ResolveProbe \/ ResolveLatest
    PROVE  BInv'
  <1>1. /\ JobInv(job) /\ job # Unset /\ ended = Unset /\ ended' = ended /\ UNCHANGED <<web, newest, folder>>
        /\ job.at \in {"sums", "probe", "latest-sums"} /\ job.got = <<>>
    BY DEF BInv, ResolveSums, ResolveProbe, ResolveLatest, JobInv, Ordered, Fetching
  <1>2. /\ DOMAIN job' = JobFields /\ job'.got = job.got /\ job'.req = job.req /\ job'.step = job.step
    <2>1. DOMAIN job = JobFields
      BY <1>1 DEF JobInv, IsJob
    <2> QED
      BY <2>1 DEF ResolveSums, ResolveProbe, ResolveLatest, JobFields
  <1>3. job'.at \in {"probe", "fetch", "latest-sums"}
    <2>1. DOMAIN job = JobFields
      BY <1>1 DEF JobInv, IsJob
    <2> QED
      BY <2>1 DEF ResolveSums, ResolveProbe, ResolveLatest, JobFields
  <1>4. job'.probed = Unset \/ job'.probed \in Releases
    <2>1. DOMAIN job = JobFields /\ (job.probed = Unset \/ job.probed \in Releases)
      BY <1>1 DEF JobInv, IsJob
    <2>2. HasAsset(job.base, job.req.names[1]) => ReleaseAt(job.base) \in Releases
      BY ReleaseFound DEF HasAsset
    <2>3. job'.probed = job.probed \/ (HasAsset(job.base, job.req.names[1]) /\ job'.probed = ReleaseAt(job.base))
      BY <2>1 DEF ResolveSums, ResolveProbe, ResolveLatest, JobFields
    <2> QED
      BY <2>1, <2>2, <2>3
  <1>5. job'.at \in Fetching /\ job'.at \notin Placing /\ job'.at # "build"
    BY <1>3 DEF Fetching, Placing
  <1>6. IsJob(job')
    BY <1>1, <1>2, <1>4, <1>5 DEF JobInv, IsJob
  <1>7. Len(job'.got) = 0 /\ Len(job'.req.names) \in Nat
    <2>1. job.req.names \in Seq(BinNames)
      BY <1>1, RequestsAssumption DEF JobInv, IsJob
    <2>2. Len(job.req.names) \in Nat
      BY <2>1, LenProperties
    <2> QED
      BY <1>1, <1>2, <2>2, EmptyGot
  <1>8. job.step = 1
    BY <1>1 DEF JobInv, Ordered, Fetching
  <1>9. job'.step = 1 /\ 1 .. Len(job'.got) = {} /\ job'.got = <<>>
    BY <1>1, <1>2, <1>7, <1>8
  <1>10. 1 <= Len(job'.req.names) + 1
    BY <1>7
  <1>11. Ordered(job') /\ OfItsRelease(job')
    BY <1>5, <1>9, <1>10 DEF Ordered, OfItsRelease
  <1> QED
    BY <1>1, <1>5, <1>6, <1>11 DEF BInv, Done, JobInv

\* What one more download adds to what was got.
LEMMA AppendGot ==
    ASSUME NEW s \in Seq(Pairs), NEW e \in Pairs
    PROVE  /\ Append(s, e) \in Seq(Pairs) /\ Len(s) \in Nat
           /\ Len(Append(s, e)) = Len(s) + 1
           /\ \A i \in 1 .. Len(s) : Append(s, e)[i] = s[i]
           /\ Append(s, e)[Len(s) + 1] = e
  BY AppendProperties

LEMMA DownloadBInv ==
    ASSUME BInv, DownloadOne
    PROVE  BInv'
  <1> DEFINE n == job.req.names[job.step]
             cached == job.probed # Unset /\ job.step = 1
             r == IF cached THEN job.probed ELSE ReleaseAt(job.base)
  <1>1. /\ JobInv(job) /\ job # Unset /\ ended = Unset /\ UNCHANGED <<web, newest, folder>>
        /\ job.at = "fetch" /\ job.step <= Len(job.req.names)
    BY DEF BInv, DownloadOne
  <1>2. /\ IsJob(job) /\ Len(job.req.names) \in Nat /\ n \in BinNames
        /\ \A i, k \in 1 .. Len(job.req.names) : job.req.names[i] = job.req.names[k] => i = k
    BY <1>1, RequestsAssumption, ElementOfSeq, LenProperties DEF JobInv, IsJob
  <1>3. CASE End("fetching", job)
    BY <1>1, <1>3, EndBInv
  <1>4. CASE job' = [job EXCEPT !.step = @ + 1, !.skipped = @ \cup {n}] /\ UNCHANGED ended
    <2>1. /\ DOMAIN job' = JobFields /\ job'.got = job.got /\ job'.req = job.req /\ job'.step = job.step + 1
          /\ job'.at = "fetch" /\ job'.sums = job.sums /\ job'.probed = job.probed
      BY <1>1, <1>2, <1>4 DEF IsJob, JobFields
    <2>2. IsJob(job')
      BY <1>1, <1>2, <2>1 DEF IsJob
    <2>3. Ordered(job')
      BY <1>1, <1>2, <2>1 DEF JobInv, Ordered, IsJob, Fetching
    <2>4. OfItsRelease(job')
      BY <1>1, <2>1 DEF JobInv, OfItsRelease
    <2> QED
      BY <1>1, <1>4, <2>1, <2>2, <2>3, <2>4 DEF BInv, Done, JobInv, Placing
  <1>5. CASE /\ cached \/ HasAsset(job.base, n)
             /\ Verified(n, r, job.sums)
             /\ job' = [job EXCEPT !.step = @ + 1, !.got = Append(@, <<n, r>>)]
             /\ UNCHANGED ended
    <2>1. r \in Releases
      BY <1>2, <1>5, ReleaseFound DEF IsJob, HasAsset
    <2>2. <<n, r>> \in Pairs
      BY <1>2, <2>1 DEF Pairs
    <2> HIDE DEF n, r, cached
    <2>3. /\ DOMAIN job' = JobFields /\ job'.got = Append(job.got, <<n, r>>) /\ job'.req = job.req
          /\ job'.step = job.step + 1 /\ job'.at = "fetch" /\ job'.sums = job.sums /\ job'.probed = job.probed
      BY <1>1, <1>2, <1>5 DEF IsJob, JobFields
    <2>4. /\ job'.got \in Seq(Pairs) /\ Len(job.got) \in Nat
          /\ Len(job'.got) = Len(job.got) + 1
          /\ \A i \in 1 .. Len(job.got) : job'.got[i] = job.got[i]
          /\ job'.got[Len(job.got) + 1] = <<n, r>>
      BY <1>2, <2>2, <2>3, AppendGot DEF IsJob
    <2>5. IsJob(job')
      BY <1>1, <1>2, <2>3, <2>4 DEF IsJob
    <2>6. \A i \in 1 .. Len(job.got) : \E k \in 1 .. job.step - 1 : job.got[i][1] = job.req.names[k]
      BY <1>1 DEF JobInv, Ordered
    <2>7. n = job.req.names[job.step]
      BY DEF n
    <2>8. \A i \in 1 .. Len(job'.got) : \E k \in 1 .. job'.step - 1 : job'.got[i][1] = job.req.names[k]
      <3> SUFFICES ASSUME NEW i \in 1 .. Len(job'.got)
                   PROVE  \E k \in 1 .. job'.step - 1 : job'.got[i][1] = job.req.names[k]
        OBVIOUS
      <3>1. CASE i \in 1 .. Len(job.got)
        <4>1. PICK k \in 1 .. job.step - 1 : job.got[i][1] = job.req.names[k]
          BY <2>6, <3>1
        <4>2. k \in 1 .. job'.step - 1 /\ job'.got[i][1] = job.req.names[k]
          BY <1>2, <2>3, <2>4, <3>1, <4>1 DEF IsJob
        <4> QED
          BY <4>2
      <3>2. CASE i = Len(job.got) + 1
        <4>1. job.step \in 1 .. job'.step - 1 /\ job'.got[i][1] = job.req.names[job.step]
          BY <1>2, <2>3, <2>4, <2>7, <3>2 DEF IsJob
        <4> QED
          BY <4>1
      <3> QED
        BY <2>4, <3>1, <3>2
    <2>9. \A i \in 1 .. Len(job.got) : job.got[i][1] # n
      <3> SUFFICES ASSUME NEW i \in 1 .. Len(job.got), job.got[i][1] = n PROVE FALSE
        OBVIOUS
      <3>1. PICK k \in 1 .. job.step - 1 : job.got[i][1] = job.req.names[k]
        BY <2>6
      <3>2. k \in 1 .. Len(job.req.names) /\ job.step \in 1 .. Len(job.req.names) /\ k # job.step
        BY <1>1, <1>2 DEF IsJob
      <3> QED
        BY <1>2, <2>7, <3>1, <3>2
    <2>10. \A i, k \in 1 .. Len(job'.got) : job'.got[i][1] = job'.got[k][1] => i = k
      <3>1. \A i, k \in 1 .. Len(job.got) : job.got[i][1] = job.got[k][1] => i = k
        BY <1>1 DEF JobInv, Ordered
      <3>2. \A i \in 1 .. Len(job'.got) :
              \/ i \in 1 .. Len(job.got) /\ job'.got[i][1] = job.got[i][1] /\ job'.got[i][1] # n
              \/ i = Len(job.got) + 1 /\ job'.got[i][1] = n
        BY <2>4, <2>9
      <3> QED
        BY <3>1, <3>2
    <2>11. Ordered(job')
      <3>1. job'.step <= Len(job'.req.names) + 1
        BY <1>1, <1>2, <2>3 DEF IsJob
      <3> QED
        BY <2>3, <2>8, <2>10, <3>1 DEF Ordered, Fetching
    <2>12. OfItsRelease(job')
      <3> SUFFICES ASSUME job.sums # Unset, NEW i \in 1 .. Len(job'.got),
                          job'.got[i][1] \in DOMAIN job.sums.entries
                   PROVE  job'.got[i][2] = job.sums.of
        BY <2>3 DEF OfItsRelease
      <3>1. CASE i \in 1 .. Len(job.got)
        BY <1>1, <2>4, <3>1 DEF JobInv, OfItsRelease
      <3>2. CASE i = Len(job.got) + 1
        BY <1>5, <2>4, <3>2 DEF Verified
      <3> QED
        BY <2>4, <3>1, <3>2
    <2> QED
      BY <1>1, <1>5, <2>3, <2>5, <2>11, <2>12 DEF BInv, Done, JobInv, Placing
  <1> QED
    BY <1>1, <1>3, <1>4, <1>5 DEF DownloadOne

LEMMA FetchedBInv ==
    ASSUME BInv, Downloaded \/ BuildAll
    PROVE  BInv'
  <1>1. /\ JobInv(job) /\ IsJob(job) /\ job # Unset /\ ended = Unset /\ UNCHANGED <<web, newest, folder, ended>>
        /\ job.step >= 1
    BY DEF BInv, Downloaded, BuildAll, JobInv, IsJob
  <1>2. CASE Downloaded
    <2>1. /\ DOMAIN job' = JobFields /\ job'.got = job.got /\ job'.req = job.req /\ job'.step = 1
          /\ job'.at = "write" /\ job'.sums = job.sums /\ job'.probed = job.probed
      BY <1>1, <1>2 DEF Downloaded, IsJob, JobFields
    <2>2. IsJob(job')
      BY <1>1, <2>1 DEF IsJob, Placing
    <2>3. Ordered(job') /\ OfItsRelease(job')
      BY <1>1, <2>1 DEF JobInv, Ordered, OfItsRelease, Fetching
    <2>4. Placed(job, job.step - 1)'
      BY <2>1 DEF Placed
    <2> QED
      BY <1>1, <2>1, <2>2, <2>3, <2>4 DEF BInv, Done, JobInv
  <1>3. CASE BuildAll
    <2> DEFINE g == [i \in DOMAIN job.req.names |-> <<job.req.names[i], "checkout">>]
    <2>1. /\ DOMAIN job' = JobFields /\ job'.got = g /\ job'.req = job.req /\ job'.step = 1
          /\ job'.at = "write" /\ job'.sums = Unset /\ job'.probed = job.probed
      BY <1>1, <1>3 DEF BuildAll, IsJob, JobFields, JobInv, Ordered, Fetching
    <2>2. /\ job.req.names \in Seq(BinNames) /\ DOMAIN job.req.names = 1 .. Len(job.req.names)
          /\ Len(job.req.names) \in Nat
          /\ \A i, k \in 1 .. Len(job.req.names) : job.req.names[i] = job.req.names[k] => i = k
      BY <1>1, RequestsAssumption, LenProperties DEF IsJob
    <2>3. \A i \in DOMAIN job.req.names : <<job.req.names[i], "checkout">> \in Pairs
      <3>1. "checkout" \in Releases
        BY DEF Releases
      <3>2. \A i \in DOMAIN job.req.names : job.req.names[i] \in BinNames
        BY <2>2, ElementOfSeq
      <3> QED
        BY <3>1, <3>2 DEF Pairs
    <2>4. g \in Seq(Pairs) /\ Len(g) = Len(job.req.names)
      BY <2>2, <2>3, IsASeq
    <2>5. \A i, k \in 1 .. Len(g) : g[i][1] = g[k][1] => i = k
      BY <2>2, <2>4
    <2> HIDE DEF g
    <2>6. IsJob(job')
      BY <1>1, <2>1, <2>4 DEF IsJob, Placing
    <2>7. Ordered(job') /\ OfItsRelease(job')
      BY <2>1, <2>5 DEF Ordered, OfItsRelease, Fetching
    <2>8. Placed(job, job.step - 1)'
      BY <2>1 DEF Placed
    <2> QED
      BY <1>1, <2>1, <2>6, <2>7, <2>8 DEF BInv, Done, JobInv
  <1> QED
    BY <1>2, <1>3

\* A file operation that leaves what was placed in place.
LEMMA KeptBInv ==
    ASSUME BInv, job # Unset, job.at \in Placing, NEW to \in Placing,
           UNCHANGED <<web, newest, ended>>,
           \/ job' = [job EXCEPT !.at = to]
           \/ job' = [job EXCEPT !.at = to, !.stuck = TRUE],
           \A m \in DOMAIN folder : m # Name => m \in DOMAIN folder' /\ folder'[m] = folder[m],
           job.step <= Len(job.got)
    PROVE  BInv'
  <1>1. JobInv(job) /\ IsJob(job) /\ ended = Unset
    BY DEF BInv, JobInv
  <1>2. /\ DOMAIN job' = JobFields /\ job'.got = job.got /\ job'.req = job.req /\ job'.step = job.step
        /\ job'.at = to /\ job'.sums = job.sums /\ job'.probed = job.probed
    BY <1>1 DEF IsJob, JobFields
  <1>3. IsJob(job')
    BY <1>1, <1>2 DEF IsJob
  <1>4. Ordered(job') /\ OfItsRelease(job')
    BY <1>1, <1>2 DEF JobInv, Ordered, OfItsRelease, Fetching, Placing
  <1>5. Placed(job, job.step - 1)'
    <2> SUFFICES ASSUME NEW i \in 1 .. Len(job.got), i <= job.step - 1
                 PROVE  job.got[i][1] \in DOMAIN folder' /\ folder'[job.got[i][1]] = job.got[i][2]
      BY <1>2 DEF Placed
    <2>1. job.got[i][1] \in DOMAIN folder /\ folder[job.got[i][1]] = job.got[i][2]
      BY <1>1 DEF JobInv, Placed
    <2>2. job.step \in 1 .. Len(job.got) /\ i # job.step
      BY <1>1, LenProperties DEF IsJob
    <2>3. job.got[i][1] # Name
      BY <1>1, <2>2 DEF JobInv, Ordered, Name
    <2> QED
      BY <2>1, <2>3
  <1> QED
    BY <1>1, <1>2, <1>3, <1>4, <1>5 DEF BInv, Done, JobInv

\* The binary at hand is in place.
LEMMA PlacedBInv ==
    ASSUME BInv, job # Unset, job.at \in Placing, UNCHANGED <<web, newest, ended>>,
           job' = NextOne, folder' = With(Name, Content), job.step <= Len(job.got)
    PROVE  BInv'
  <1>1. JobInv(job) /\ IsJob(job) /\ ended = Unset
    BY DEF BInv, JobInv
  <1>2. /\ DOMAIN job' = JobFields /\ job'.got = job.got /\ job'.req = job.req /\ job'.step = job.step + 1
        /\ job'.at = "write" /\ job'.sums = job.sums /\ job'.probed = job.probed
    BY <1>1 DEF IsJob, JobFields, NextOne
  <1>3. IsJob(job')
    BY <1>1, <1>2 DEF IsJob, Placing
  <1>4. Ordered(job') /\ OfItsRelease(job')
    BY <1>1, <1>2 DEF JobInv, Ordered, OfItsRelease, Fetching, Placing
  <1>5. Placed(job, job.step - 1)'
    <2> SUFFICES ASSUME NEW i \in 1 .. Len(job.got), i <= job.step
                 PROVE  job.got[i][1] \in DOMAIN folder' /\ folder'[job.got[i][1]] = job.got[i][2]
      BY <1>1, <1>2 DEF Placed, IsJob
    <2>1. job.step \in 1 .. Len(job.got)
      BY <1>1, LenProperties DEF IsJob
    <2>2. CASE i = job.step
      BY <2>2 DEF With, Name, Content
    <2>3. CASE i # job.step
      <3>1. job.got[i][1] \in DOMAIN folder /\ folder[job.got[i][1]] = job.got[i][2]
        BY <1>1, <2>3 DEF JobInv, Placed, IsJob
      <3>2. job.got[i][1] # Name
        BY <1>1, <2>1, <2>3 DEF JobInv, Ordered, Name
      <3> QED
        BY <3>1, <3>2 DEF With
    <2> QED
      BY <2>2, <2>3
  <1> QED
    BY <1>1, <1>2, <1>3, <1>4, <1>5 DEF BInv, Done, JobInv, Placing

LEMMA ReplaceBInv ==
    ASSUME BInv, WriteTemporary \/ RenameOver \/ ParkOld \/ RenameAgain \/ PutBack \/ CleanUp
    PROVE  BInv'
  <1> USE DEF Replacing
  <1>1. job # Unset /\ job.at \in Placing /\ job.step <= Len(job.got) /\ UNCHANGED <<web, newest>>
    BY DEF WriteTemporary, RenameOver, ParkOld, RenameAgain, PutBack, CleanUp, Placing
  <1>2. CASE \E how \in {"fetching", "replacing", "killed"} : End(how, job)
    BY <1>1, <1>2, EndBInv
  <1>3. CASE job' = NextOne /\ folder' = With(Name, Content) /\ UNCHANGED ended
    BY <1>1, <1>3, PlacedBInv
  <1>4. CASE /\ \E to \in Placing : \/ job' = [job EXCEPT !.at = to]
                                    \/ job' = [job EXCEPT !.at = to, !.stuck = TRUE]
             /\ UNCHANGED ended
             /\ \A m \in DOMAIN folder : m # Name => m \in DOMAIN folder' /\ folder'[m] = folder[m]
    BY <1>1, <1>4, KeptBInv
  <1>5. CASE WriteTemporary
    <2>1. CASE ended' = ended /\ job' = [job EXCEPT !.at = "rename"]
      BY <1>4, <1>5, <2>1 DEF WriteTemporary, Placing
    <2> QED
      BY <1>2, <1>5, <2>1 DEF WriteTemporary
  <1>6. CASE RenameOver
    <2>1. CASE UNCHANGED <<folder, ended>> /\ job' = [job EXCEPT !.at = "park"]
      BY <1>4, <2>1 DEF Placing
    <2> QED
      BY <1>3, <1>6, <2>1 DEF RenameOver
  <1>7. CASE ParkOld
    <2>1. CASE folder' = FolderWithout(Name) /\ UNCHANGED ended /\ job' = [job EXCEPT !.at = "rename-again"]
      BY <1>4, <2>1 DEF Placing, FolderWithout
    <2>2. CASE UNCHANGED <<folder, ended>> /\ job' = [job EXCEPT !.at = "clean"]
      BY <1>4, <2>2 DEF Placing
    <2> QED
      BY <1>7, <2>1, <2>2 DEF ParkOld
  <1>8. CASE RenameAgain
    <2>1. CASE UNCHANGED <<folder, ended>> /\ job' = [job EXCEPT !.at = "put-back"]
      BY <1>4, <2>1 DEF Placing
    <2> QED
      BY <1>3, <1>8, <2>1 DEF RenameAgain
  <1>9. CASE PutBack
    <2>1. CASE UNCHANGED <<folder, ended>> /\ job' = [job EXCEPT !.at = "clean", !.stuck = TRUE]
      BY <1>4, <2>1 DEF Placing
    <2>2. CASE \E s : folder' = With(Name, s.content) /\ UNCHANGED ended /\ job' = [job EXCEPT !.at = "clean"]
      BY <1>4, <2>2 DEF Placing, With
    <2> QED
      BY <1>9, <2>1, <2>2 DEF PutBack
  <1>10. CASE CleanUp
    BY <1>2, <1>10 DEF CleanUp
  <1> QED
    BY <1>5, <1>6, <1>7, <1>8, <1>9, <1>10

LEMMA CompleteBInv ==
    ASSUME BInv, Complete
    PROVE  BInv'
  <1>1. /\ JobInv(job) /\ IsJob(job) /\ UNCHANGED <<web, newest, folder>> /\ job' = Unset
        /\ ended'.job = job /\ job.step > Len(job.got) /\ job.at = "write"
    BY DEF BInv, JobInv, Complete, End
  <1>2. \A i \in 1 .. Len(job.got) : i <= job.step - 1
    BY <1>1, LenProperties DEF IsJob
  <1>3. Placed(job, Len(job.got))
    BY <1>1, <1>2 DEF JobInv, Placed, Placing
  <1> QED
    BY <1>1, <1>3 DEF BInv, Done, JobInv, Placed

LEMMA NextBInv == BInv /\ [BinNext]_binVars => BInv'
  <1> SUFFICES ASSUME BInv, [BinNext]_binVars PROVE BInv'
    OBVIOUS
  <1>1. ASSUME NEW req \in Requests, BeginInstall(req) PROVE BInv'
    BY <1>1, BeginBInv
  <1>2. CASE ResolveSums \/ ResolveProbe \/ ResolveLatest
    BY <1>2, ResolveBInv
  <1>3. CASE DownloadOne
    BY <1>3, DownloadBInv
  <1>4. CASE Downloaded \/ BuildAll
    BY <1>4, FetchedBInv
  <1>5. CASE FetchFails
    BY <1>5, EndBInv DEF FetchFails
  <1>6. CASE WriteTemporary \/ RenameOver \/ ParkOld \/ RenameAgain \/ PutBack \/ CleanUp
    BY <1>6, ReplaceBInv
  <1>7. CASE Complete
    BY <1>7, CompleteBInv
  <1>8. CASE Killed
    BY <1>8, EndBInv DEF Killed
  <1>9. CASE Publish
    BY <1>9 DEF Publish, BInv, Done, JobInv, Placed
  <1>10. CASE UNCHANGED binVars
    BY <1>10 DEF binVars, BInv, Done, JobInv, Placed
  <1> QED
    BY <1>1, <1>2, <1>3, <1>4, <1>5, <1>6, <1>7, <1>8, <1>9, <1>10 DEF BinNext

(* The binaries an installation put in place are all of the release whose  *)
(* checksums it read, when those name them, although "latest" may name     *)
(* another release between two downloads (binaries.rs download_all).       *)
THEOREM BinariesOneRelease == BinSpec => []OneRelease
  <1>1. BinInit => BInv
    BY InitBInv
  <1>2. BInv /\ [BinNext]_binVars => BInv'
    BY NextBInv
  <1>3. BInv => OneRelease
    BY LenProperties DEF BInv, Done, IsJob, OfItsRelease, Placed, OneRelease
  <1> QED
    BY <1>1, <1>2, <1>3, PTL DEF BinSpec

-----------------------------------------------------------------------------
(***************************************************************************)
(* The inductive invariant of the folder.  Its files and the parked ones   *)
(* are whole; a job that still fetches has not touched it; a job that      *)
(* places has every binary of before in place, but for the one at hand     *)
(* while that is parked; and what was fetched is all that was asked for,   *)
(* but for what was skipped.                                               *)
(***************************************************************************)
Whole ==
  /\ \A m \in DOMAIN folder : folder[m] \in Releases
  /\ \A s \in strays : s.was = "parked" => s.content \in Releases

Standing(j) ==
  /\ j.at \in Fetching => folder = j.before
  /\ j.stuck => j.at = "clean"
  /\ j.at \in Placing =>
       \A n \in DOMAIN j.before :
         Stands(n) \/ (Parked(n) /\ n = Name /\ (j.at \in {"rename-again", "put-back"} \/ j.stuck))

GotOrSkipped(j, k) == j.req.names[k] \in j.skipped \/ \E i \in 1 .. Len(j.got) : j.got[i][1] = j.req.names[k]
Fetched(j) ==
  /\ j.at = "fetch" => \A k \in 1 .. j.step - 1 : GotOrSkipped(j, k)
  /\ j.at \in Placing => \A k \in 1 .. Len(j.req.names) : GotOrSkipped(j, k)

SInv ==
  /\ Whole
  /\ job # Unset => Standing(job) /\ Fetched(job)
  /\ BinariesStand

LEMMA PartIsNoRelease == "part" \notin Releases
  BY SitesAssumption DEF Releases, Released

LEMMA InitSInv == BinInit => SInv
  BY DEF BinInit, SInv, Whole, BinariesStand

\* Nothing is on record while a job runs.
LEMMA RunsSInv ==
    ASSUME Whole', job' # Unset => Standing(job)' /\ Fetched(job)', ended' = Unset
    PROVE  SInv'
  BY PartIsNoRelease DEF SInv, Whole, BinariesStand

\* A failure or a kill finds what the job left.
LEMMA EndSInv ==
    ASSUME BInv, SInv, job # Unset, NEW how \in {"fetching", "replacing", "killed"},
           End(how, job), UNCHANGED <<folder, installs>>, Whole',
           \A s \in strays : s.was = "parked" => s \in strays',
           how = "fetching" => job.at \in Fetching,
           how = "replacing" => job.at \in {"write", "clean"}
    PROVE  SInv'
  <1>1. job' = Unset /\ ended'.how = how /\ ended'.job = job /\ JobInv(job) /\ Standing(job)
    BY DEF End, BInv, SInv
  <1>2. \A n : (Stands(n) => Stands(n)') /\ (Parked(n) => Parked(n)')
    BY DEF Stands, Parked
  <1>3. CASE job.at \in Fetching
    <2>1. folder' = job.before /\ \A n \in DOMAIN job.before : Stands(n)'
      BY <1>1, <1>3 DEF Standing, Stands
    <2>2. how # "replacing"
      BY <1>3 DEF Fetching
    <2> QED
      BY <1>1, <2>1, <2>2, PartIsNoRelease DEF SInv, Whole, BinariesStand
  <1>4. CASE job.at \in Placing
    <2>1. how # "fetching"
      BY <1>4 DEF Fetching, Placing
    <2>2. \A n \in DOMAIN job.before : Stands(n)' \/ (Parked(n)' /\ (how = "killed" \/ job.stuck))
      BY <1>1, <1>2, <1>4, <2>1 DEF Standing
    <2> QED
      BY <1>1, <2>1, <2>2, PartIsNoRelease DEF SInv, Whole, BinariesStand
  <1> QED
    BY <1>1, <1>3, <1>4 DEF JobInv, IsJob

LEMMA BeginSInv ==
    ASSUME SInv, NEW req \in Requests, BeginInstall(req)
    PROVE  SInv'
  <1>1. PICK at \in {"latest-sums", "sums", "build"} : job' = Fresh(req, at)
    <2>1. CASE req.mode = "prebuilt"
      BY <2>1 DEF BeginInstall
    <2>2. CASE req.mode = "build"
      BY <2>2 DEF BeginInstall
    <2> QED
      BY <2>1, <2>2, RequestsAssumption
  <1>2. ended' = Unset /\ UNCHANGED <<folder, strays>>
    BY DEF BeginInstall
  <1>3. job'.at = at /\ job'.before = folder /\ job'.stuck = FALSE
    BY <1>1 DEF Fresh
  <1>4. job'.at \notin Placing /\ job'.at # "fetch" /\ at # "clean"
    BY <1>3 DEF Placing
  <1>5. Standing(job)' /\ Fetched(job)' /\ Whole'
    BY <1>2, <1>3, <1>4 DEF Standing, Fetched, SInv, Whole
  <1> QED
    BY <1>2, <1>5, RunsSInv

\* While a job fetches the folder is as it was.
LEMMA FetchSInv ==
    ASSUME BInv, SInv, ResolveSums \/ ResolveProbe \/ ResolveLatest \/ DownloadOne \/ Downloaded \/ BuildAll
    PROVE  SInv'
  <1>1. /\ job # Unset /\ JobInv(job) /\ IsJob(job) /\ ended = Unset /\ Standing(job) /\ Fetched(job)
        /\ job.at \in Fetching /\ DOMAIN job = JobFields /\ UNCHANGED <<folder, strays, installs>>
    BY DEF BInv, SInv, JobInv, IsJob, Fetching, ResolveSums, ResolveProbe, ResolveLatest, DownloadOne,
           Downloaded, BuildAll
  <1>2. Whole'
    BY <1>1 DEF SInv, Whole
  <1>3. folder = job.before /\ ~job.stuck
    BY <1>1 DEF Standing, Fetching
  <1>4. Len(job.req.names) \in Nat /\ DOMAIN job.req.names = 1 .. Len(job.req.names) /\ job.step \in Nat
    BY <1>1, RequestsAssumption, LenProperties DEF IsJob
  <1>5. ASSUME job'.before = job.before, job'.stuck = job.stuck PROVE Standing(job)'
    BY <1>1, <1>3, <1>5 DEF Standing, Stands
  <1>6. CASE ResolveSums \/ ResolveProbe \/ ResolveLatest
    <2>1. job'.before = job.before /\ job'.stuck = job.stuck /\ job'.step = job.step
          /\ job'.at \in {"probe", "fetch", "latest-sums"} /\ ended' = Unset
      BY <1>1, <1>6 DEF ResolveSums, ResolveProbe, ResolveLatest, JobFields
    <2>2. job.step = 1
      BY <1>1, <1>6 DEF JobInv, Ordered, Fetching, ResolveSums, ResolveProbe, ResolveLatest
    <2>3. Fetched(job)'
      BY <2>1, <2>2 DEF Fetched, Placing
    <2> QED
      BY <1>2, <1>5, <2>1, <2>3, RunsSInv
  <1>7. CASE DownloadOne
    <2> DEFINE n == job.req.names[job.step]
    <2>1. job.at = "fetch" /\ job.step <= Len(job.req.names)
      BY <1>7 DEF DownloadOne
    <2>2. CASE End("fetching", job)
      BY <1>1, <1>2, <2>2, EndSInv
    <2>3. CASE job' = [job EXCEPT !.step = @ + 1, !.skipped = @ \cup {n}] /\ UNCHANGED ended
      <3>1. /\ job'.before = job.before /\ job'.stuck = job.stuck /\ job'.step = job.step + 1 /\ job'.at = "fetch"
            /\ job'.req = job.req /\ job'.got = job.got /\ job'.skipped = job.skipped \cup {n} /\ ended' = Unset
        BY <1>1, <2>1, <2>3 DEF JobFields
      <3>2. ASSUME NEW k \in 1 .. job.step PROVE GotOrSkipped(job', k)
        <4>1. CASE k = job.step
          BY <3>1, <4>1 DEF GotOrSkipped
        <4>2. CASE k # job.step
          <5>1. GotOrSkipped(job, k)
            BY <1>1, <1>4, <2>1, <4>2 DEF Fetched
          <5> QED
            BY <3>1, <5>1 DEF GotOrSkipped
        <4> QED
          BY <4>1, <4>2
      <3>3. Fetched(job)'
        BY <1>4, <3>1, <3>2 DEF Fetched, Placing
      <3> QED
        BY <1>2, <1>5, <3>1, <3>3, RunsSInv
    <2>4. CASE \E r : job' = [job EXCEPT !.step = @ + 1, !.got = Append(@, <<n, r>>)] /\ <<n, r>> \in Pairs
                      /\ UNCHANGED ended
      <3>1. PICK r : job' = [job EXCEPT !.step = @ + 1, !.got = Append(@, <<n, r>>)] /\ <<n, r>> \in Pairs
                     /\ UNCHANGED ended
        BY <2>4
      <3>2. /\ job'.before = job.before /\ job'.stuck = job.stuck /\ job'.step = job.step + 1 /\ job'.at = "fetch"
            /\ job'.req = job.req /\ job'.got = Append(job.got, <<n, r>>) /\ job'.skipped = job.skipped
            /\ ended' = Unset
        BY <1>1, <2>1, <3>1 DEF JobFields
      <3>3. /\ Len(job'.got) = Len(job.got) + 1 /\ Len(job.got) \in Nat
            /\ \A i \in 1 .. Len(job.got) : job'.got[i] = job.got[i]
            /\ job'.got[Len(job.got) + 1] = <<n, r>>
        BY <1>1, <3>1, <3>2, AppendGot DEF IsJob
      <3>4. ASSUME NEW k \in 1 .. job.step PROVE GotOrSkipped(job', k)
        <4>1. CASE k = job.step
          <5>1. Len(job.got) + 1 \in 1 .. Len(job'.got) /\ job'.got[Len(job.got) + 1][1] = n
            BY <3>3
          <5> QED
            BY <3>2, <4>1, <5>1 DEF GotOrSkipped
        <4>2. CASE k # job.step
          <5>1. GotOrSkipped(job, k)
            BY <1>1, <1>4, <2>1, <4>2 DEF Fetched
          <5>2. \A i \in 1 .. Len(job.got) : i \in 1 .. Len(job'.got) /\ job'.got[i] = job.got[i]
            BY <3>3
          <5> QED
            BY <3>2, <5>1, <5>2 DEF GotOrSkipped
        <4> QED
          BY <4>1, <4>2
      <3>5. Fetched(job)'
        BY <1>4, <3>2, <3>4 DEF Fetched, Placing
      <3> QED
        BY <1>2, <1>5, <3>2, <3>5, RunsSInv
    <2>5. ASSUME (job.probed # Unset /\ job.step = 1) \/ HasAsset(job.base, n)
          PROVE  <<n, IF job.probed # Unset /\ job.step = 1 THEN job.probed ELSE ReleaseAt(job.base)>> \in Pairs
      <3>1. n \in BinNames
        BY <1>1, <1>4, <2>1, RequestsAssumption, ElementOfSeq DEF IsJob
      <3>2. job.probed # Unset => job.probed \in Releases
        BY <1>1 DEF IsJob
      <3>3. HasAsset(job.base, n) => ReleaseAt(job.base) \in Releases
        BY ReleaseFound DEF HasAsset
      <3> QED
        BY <2>5, <3>1, <3>2, <3>3 DEF Pairs
    <2> QED
      BY <1>7, <2>2, <2>3, <2>4, <2>5 DEF DownloadOne
  <1>8. CASE Downloaded
    <2>1. /\ job'.before = job.before /\ job'.stuck = job.stuck /\ job'.at = "write" /\ job.at = "fetch"
          /\ job'.req = job.req /\ job'.got = job.got /\ job'.skipped = job.skipped /\ ended' = Unset
          /\ job.step > Len(job.req.names)
      BY <1>1, <1>8 DEF Downloaded, JobFields
    <2>2. \A k \in 1 .. Len(job.req.names) : GotOrSkipped(job, k)
      BY <1>1, <1>4, <2>1 DEF Fetched
    <2>3. Fetched(job)'
      BY <2>1, <2>2 DEF Fetched, GotOrSkipped
    <2> QED
      BY <1>2, <1>5, <2>1, <2>3, RunsSInv
  <1>9. CASE BuildAll
    <2> DEFINE g == [i \in DOMAIN job.req.names |-> <<job.req.names[i], "checkout">>]
    <2>1. /\ job'.before = job.before /\ job'.stuck = job.stuck /\ job'.at = "write"
          /\ job'.req = job.req /\ job'.got = g /\ ended' = Unset
      BY <1>1, <1>9 DEF BuildAll, JobFields
    <2>2. Len(g) = Len(job.req.names) /\ \A k \in 1 .. Len(job.req.names) : g[k][1] = job.req.names[k]
      BY <1>4
    <2>3. Fetched(job)'
      BY <2>1, <2>2 DEF Fetched, GotOrSkipped
    <2> QED
      BY <1>2, <1>5, <2>1, <2>3, RunsSInv
  <1> QED
    BY <1>6, <1>7, <1>8, <1>9

\* While a job places: what it may touch is the binary at hand, and what was parked.
LEMMA PlacesSInv ==
    ASSUME BInv, SInv, WriteTemporary \/ RenameOver \/ ParkOld \/ RenameAgain \/ PutBack \/ CleanUp
    PROVE  SInv'
  <1> USE DEF Replacing
  <1>1. /\ job # Unset /\ JobInv(job) /\ IsJob(job) /\ ended = Unset /\ Standing(job) /\ Fetched(job)
        /\ job.at \in Placing /\ job.step <= Len(job.got) /\ DOMAIN job = JobFields /\ UNCHANGED installs
    BY DEF BInv, SInv, JobInv, IsJob, Placing, WriteTemporary, RenameOver, ParkOld, RenameAgain, PutBack, CleanUp
  <1>2. Content \in Releases
    <2>1. job.step \in 1 .. Len(job.got) /\ job.got \in Seq(Pairs)
      BY <1>1, LenProperties DEF IsJob
    <2>2. job.got[job.step] \in Pairs
      BY <2>1, ElementOfSeq
    <2> QED
      BY <2>2 DEF Content, Pairs
  <1>3. /\ \A m \in DOMAIN folder : folder[m] \in Releases
        /\ \A s \in strays : s.was = "parked" => s.content \in Releases
    BY DEF SInv, Whole
  <1>4. ASSUME NEW c \in Releases, folder' = With(Name, c) \/ UNCHANGED folder
        PROVE  /\ \A m \in DOMAIN folder' : folder'[m] \in Releases
               /\ \A n \in DOMAIN folder : n \in DOMAIN folder'
    BY <1>3, <1>4 DEF With
  <1>5. ASSUME job'.req = job.req, job'.got = job.got, job'.skipped = job.skipped, job'.at \in Placing,
               ended' = Unset, Whole', Standing(job)'
        PROVE  SInv'
    <2>1. \A k \in 1 .. Len(job.req.names) : GotOrSkipped(job, k)
      BY <1>1 DEF Fetched
    <2>2. job'.at # "fetch"
      BY <1>5 DEF Placing
    <2>3. Fetched(job)'
      BY <1>5, <2>1, <2>2 DEF Fetched, GotOrSkipped
    <2> QED
      BY <1>5, <2>3, RunsSInv
  <1>6. job.at \in {"write", "rename", "park"} => \A n \in DOMAIN job.before : Stands(n)
    BY <1>1 DEF Standing
  <1>7. \A n \in DOMAIN job.before : n # Name => Stands(n)
    BY <1>1 DEF Standing
  <1>8. ASSUME job'.before = job.before, job'.stuck = job.stuck, job'.at \in Placing, job.at # "clean",
               \A n \in DOMAIN job.before : Stands(n)'
        PROVE  Standing(job)'
    <2>1. ~job'.stuck /\ job'.at \notin Fetching
      BY <1>1, <1>8 DEF Standing, Fetching, Placing
    <2> QED
      BY <1>8, <2>1 DEF Standing
  <1>9. CASE WriteTemporary
    <2>1. Whole' /\ \A s \in strays : s \in strays'
      BY <1>3, <1>9 DEF WriteTemporary, Whole, Stray
    <2>2. CASE job' = [job EXCEPT !.at = "rename"] /\ UNCHANGED ended
      <3>1. /\ job'.at = "rename" /\ job'.before = job.before /\ job'.stuck = job.stuck /\ job'.req = job.req
            /\ job'.got = job.got /\ job'.skipped = job.skipped /\ job.at = "write" /\ UNCHANGED folder
        BY <1>1, <1>9, <2>2 DEF JobFields, WriteTemporary
      <3>2. Standing(job)'
        BY <1>6, <1>8, <3>1 DEF Placing, Stands
      <3> QED
        BY <1>1, <1>5, <2>1, <2>2, <3>1, <3>2 DEF Placing
    <2>3. CASE End("replacing", job)
      BY <1>1, <1>9, <2>1, <2>3, EndSInv DEF WriteTemporary
    <2> QED
      BY <1>9, <2>2, <2>3 DEF WriteTemporary
  <1>10. ASSUME folder' = With(Name, Content), strays' \subseteq strays, job' = NextOne, UNCHANGED ended,
                job.at \in {"rename", "rename-again"}
         PROVE  SInv'
    <2>1. /\ job'.at = "write" /\ job'.before = job.before /\ job'.stuck = job.stuck /\ job'.req = job.req
          /\ job'.got = job.got /\ job'.skipped = job.skipped
      BY <1>1, <1>10 DEF JobFields, NextOne
    <2>2. Whole'
      BY <1>2, <1>3, <1>10 DEF Whole, With
    <2>3. \A n \in DOMAIN job.before : Stands(n)'
      BY <1>7, <1>10 DEF Stands, With
    <2>4. Standing(job)'
      BY <1>8, <1>10, <2>1, <2>3 DEF Placing
    <2> QED
      BY <1>1, <1>5, <1>10, <2>1, <2>2, <2>4 DEF Placing
  <1>11. CASE RenameOver
    <2>1. job.at = "rename" /\ UNCHANGED ended
      BY <1>11 DEF RenameOver
    <2>2. CASE job' = [job EXCEPT !.at = "park"] /\ UNCHANGED <<folder, strays>>
      <3>1. /\ job'.at = "park" /\ job'.before = job.before /\ job'.stuck = job.stuck /\ job'.req = job.req
            /\ job'.got = job.got /\ job'.skipped = job.skipped
        BY <1>1, <2>2 DEF JobFields
      <3>2. Standing(job)' /\ Whole'
        BY <1>3, <1>6, <1>8, <2>1, <2>2, <3>1 DEF Placing, Stands, Whole
      <3> QED
        BY <1>1, <1>5, <2>1, <3>1, <3>2 DEF Placing
    <2> QED
      BY <1>10, <1>11, <2>1, <2>2 DEF RenameOver
  <1>12. CASE ParkOld
    <2>1. job.at = "park" /\ UNCHANGED ended
      BY <1>12 DEF ParkOld
    <2>2. CASE /\ Name \in DOMAIN folder /\ strays' = strays \cup {Stray("parked", folder[Name])}
               /\ folder' = FolderWithout(Name) /\ job' = [job EXCEPT !.at = "rename-again"]
      <3>1. /\ job'.at = "rename-again" /\ job'.before = job.before /\ job'.stuck = job.stuck /\ job'.req = job.req
            /\ job'.got = job.got /\ job'.skipped = job.skipped /\ job'.step = job.step
        BY <1>1, <2>2 DEF JobFields
      <3>2. Whole'
        BY <1>3, <2>2 DEF Whole, Stray, FolderWithout
      <3>3. Name' = Name
        BY <3>1 DEF Name
      <3>4. Parked(Name)'
        <4> DEFINE st == Stray("parked", folder[Name])
        <4>1. st \in strays' /\ st.was = "parked" /\ st.name = Name /\ st.by = installs
          BY <2>2 DEF Stray
        <4> QED
          BY <1>1, <3>3, <4>1 DEF Parked
      <3>5. \A n \in DOMAIN job.before : n # Name => Stands(n)'
        BY <1>7, <2>2 DEF Stands, FolderWithout
      <3>6. ~job'.stuck
        BY <1>1, <2>1, <3>1 DEF Standing
      <3>7. Standing(job)'
        BY <3>1, <3>3, <3>4, <3>5, <3>6 DEF Standing, Fetching
      <3> QED
        BY <1>1, <1>5, <2>1, <3>1, <3>2, <3>7 DEF Placing
    <2>3. CASE job' = [job EXCEPT !.at = "clean"] /\ UNCHANGED <<folder, strays>>
      <3>1. /\ job'.at = "clean" /\ job'.before = job.before /\ job'.stuck = job.stuck /\ job'.req = job.req
            /\ job'.got = job.got /\ job'.skipped = job.skipped
        BY <1>1, <2>3 DEF JobFields
      <3>2. Standing(job)' /\ Whole'
        BY <1>3, <1>6, <1>8, <2>1, <2>3, <3>1 DEF Placing, Stands, Whole
      <3> QED
        BY <1>1, <1>5, <2>1, <3>1, <3>2 DEF Placing
    <2> QED
      BY <1>12, <2>2, <2>3 DEF ParkOld
  \* The two places at which the binary at hand may be parked: it stays there, or it is put back.
  <1>13. ASSUME UNCHANGED <<folder, strays, ended>>, job.at \in {"rename-again", "put-back"},
                \/ job' = [job EXCEPT !.at = "put-back"]
                \/ job' = [job EXCEPT !.at = "clean", !.stuck = TRUE]
         PROVE  SInv'
    <2>1. /\ job'.before = job.before /\ job'.req = job.req /\ job'.got = job.got /\ job'.skipped = job.skipped
          /\ job'.step = job.step
          /\ (job'.at = "put-back" /\ job'.stuck = job.stuck) \/ (job'.at = "clean" /\ job'.stuck)
      BY <1>1, <1>13 DEF JobFields
    <2>2. Whole' /\ Name' = Name /\ job'.at \in Placing /\ job'.at \notin Fetching
      BY <1>3, <1>13, <2>1 DEF Whole, Name, Placing, Fetching
    <2>3. ~job.stuck
      BY <1>1, <1>13 DEF Standing
    <2>4. \A n \in DOMAIN job.before : Stands(n)' \/ (Parked(n)' /\ n = Name)
      BY <1>1, <1>13 DEF Standing, Stands, Parked
    <2>5. Standing(job)'
      BY <2>1, <2>2, <2>3, <2>4 DEF Standing
    <2> QED
      BY <1>1, <1>5, <1>13, <2>1, <2>2, <2>5
  <1>14. CASE RenameAgain
    <2>1. job.at = "rename-again" /\ UNCHANGED ended
      BY <1>14 DEF RenameAgain
    <2> QED
      BY <1>10, <1>13, <1>14, <2>1 DEF RenameAgain
  <1>15. CASE PutBack
    <2>1. job.at = "put-back" /\ UNCHANGED ended
      BY <1>15 DEF PutBack
    <2>2. ASSUME NEW s \in OwnStrays("parked"), folder' = With(Name, s.content), strays' = strays \ {s},
                 job' = [job EXCEPT !.at = "clean"]
          PROVE  SInv'
      <3>1. s.content \in Releases
        BY <1>3 DEF OwnStrays
      <3>2. /\ job'.at = "clean" /\ job'.before = job.before /\ job'.stuck = job.stuck /\ job'.req = job.req
            /\ job'.got = job.got /\ job'.skipped = job.skipped
        BY <1>1, <2>2 DEF JobFields
      <3>3. Whole'
        BY <1>3, <2>2, <3>1 DEF Whole, With
      <3>4. \A n \in DOMAIN job.before : Stands(n)'
        BY <1>7, <2>2 DEF Stands, With
      <3>5. Standing(job)'
        BY <1>8, <2>1, <3>2, <3>4 DEF Placing
      <3> QED
        BY <1>1, <1>5, <2>1, <3>2, <3>3, <3>5 DEF Placing
    <2> QED
      BY <1>13, <1>15, <2>1, <2>2 DEF PutBack
  <1>16. CASE CleanUp
    <2>1. Whole' /\ \A s \in strays : s.was = "parked" => s \in strays'
      BY <1>3, <1>16 DEF CleanUp, Whole, OwnStrays
    <2> QED
      BY <1>1, <1>16, <2>1, EndSInv DEF CleanUp
  <1> QED
    BY <1>9, <1>11, <1>12, <1>14, <1>15, <1>16

\* All that was asked for and not skipped was fetched, and all that was fetched is placed.
LEMMA CompleteSInv ==
    ASSUME BInv, SInv, Complete
    PROVE  SInv'
  <1>1. /\ JobInv(job) /\ IsJob(job) /\ Fetched(job) /\ UNCHANGED <<folder, strays>> /\ job' = Unset
        /\ ended'.how = "installed" /\ ended'.job = job /\ job.step > Len(job.got) /\ job.at = "write"
    BY DEF BInv, SInv, JobInv, Complete, End
  <1>2. \A i \in 1 .. Len(job.got) : i <= job.step - 1
    BY <1>1, LenProperties DEF IsJob
  <1>3. \A i \in 1 .. Len(job.got) : job.got[i][1] \in DOMAIN folder
    BY <1>1, <1>2 DEF JobInv, Placed, Placing
  <1>4. DOMAIN job.req.names = 1 .. Len(job.req.names)
    BY <1>1, RequestsAssumption, LenProperties DEF IsJob
  <1>5. \A n \in {job.req.names[i] : i \in DOMAIN job.req.names} \ job.skipped : n \in DOMAIN folder
    <2> SUFFICES ASSUME NEW k \in 1 .. Len(job.req.names), job.req.names[k] \notin job.skipped
                 PROVE  job.req.names[k] \in DOMAIN folder
      BY <1>4
    <2>1. GotOrSkipped(job, k)
      BY <1>1 DEF Fetched, Placing
    <2> QED
      BY <1>3, <2>1 DEF GotOrSkipped
  <1>6. Whole'
    BY <1>1 DEF SInv, Whole
  <1> QED
    BY <1>1, <1>5, <1>6, PartIsNoRelease DEF SInv, Whole, BinariesStand, Stands

\* A kill leaves what was written in part under no binary's name.
LEMMA KilledSInv ==
    ASSUME BInv, SInv, Killed
    PROVE  SInv'
  <1>1. Whole' /\ \A s \in strays : s.was = "parked" => s \in strays'
    BY DEF Killed, SInv, Whole, Stray
  <1> QED
    BY <1>1, EndSInv DEF Killed

LEMMA NextSInv == BInv /\ SInv /\ [BinNext]_binVars => SInv'
  <1> SUFFICES ASSUME BInv, SInv, [BinNext]_binVars PROVE SInv'
    OBVIOUS
  <1>1. ASSUME NEW req \in Requests, BeginInstall(req) PROVE SInv'
    BY <1>1, BeginSInv
  <1>2. CASE ResolveSums \/ ResolveProbe \/ ResolveLatest \/ DownloadOne \/ Downloaded \/ BuildAll
    BY <1>2, FetchSInv
  <1>3. CASE FetchFails
    <2>1. job.at \in Fetching /\ Whole' /\ UNCHANGED <<folder, strays, installs>>
      BY <1>3 DEF FetchFails, Fetching, SInv, Whole
    <2> QED
      BY <1>3, <2>1, EndSInv DEF FetchFails
  <1>4. CASE WriteTemporary \/ RenameOver \/ ParkOld \/ RenameAgain \/ PutBack \/ CleanUp
    BY <1>4, PlacesSInv
  <1>5. CASE Complete
    BY <1>5, CompleteSInv
  <1>6. CASE Killed
    BY <1>6, KilledSInv
  <1>7. CASE UNCHANGED <<folder, strays, job, ended, installs>>
    <2>1. Name' = Name
      BY <1>7 DEF Name
    <2>2. \A n : Parked(n)' = Parked(n) /\ Stands(n)' = Stands(n)
      BY <1>7 DEF Parked, Stands
    <2>3. job # Unset => Standing(job)' /\ Fetched(job)'
      BY <1>7, <2>1, <2>2 DEF SInv, Standing, Fetched, GotOrSkipped
    <2>4. BinariesStand'
      BY <1>7, <2>2 DEF SInv, BinariesStand
    <2> QED
      BY <1>7, <2>3, <2>4 DEF SInv, Whole
  <1> QED
    BY <1>1, <1>2, <1>3, <1>4, <1>5, <1>6, <1>7 DEF BinNext, Publish, binVars

(* Whatever fails and wherever the installer is killed, what is under a    *)
(* binary's name is whole; a failed fetch leaves the folder as it was, and *)
(* a failed replacement leaves each binary there, the old one or the new,  *)
(* but for the one that could not be put back (binaries.rs                 *)
(* replace_binary).                                                        *)
THEOREM BinariesBinariesStand == BinSpec => []BinariesStand
  <1>1. BinInit => BInv /\ SInv
    BY InitBInv, InitSInv
  <1>2. BInv /\ SInv /\ [BinNext]_binVars => (BInv /\ SInv)'
    BY NextBInv, NextSInv
  <1>3. SInv => BinariesStand
    BY DEF SInv
  <1> QED
    BY <1>1, <1>2, <1>3, PTL DEF BinSpec

-----------------------------------------------------------------------------
\* A home carried through n changes was carried through one after the other.
After(g, changes, n) == g = [k \in 0 .. n |-> IF k = 0 THEN AsFound ELSE Perform(g[k - 1], changes[k])]
LEMMA CarryFacts ==
  ASSUME NEW changes, NEW n \in Nat
  PROVE  \E g : After(g, changes, n) /\ Carry(changes, n) = g[n]
<1> DEFINE T == {m \in 0 .. n : \E g : After(g, changes, m)}
<1>1. 0 \in T
  <2> DEFINE g == [k \in 0 .. 0 |-> AsFound]
  <2>1. After(g, changes, 0)
    <3>1. \A k \in 0 .. 0 : k = 0
      OBVIOUS
    <3>2. g = [k \in 0 .. 0 |-> IF k = 0 THEN AsFound ELSE Perform(g[k - 1], changes[k])]
      BY <3>1
    <3> QED BY <3>2 DEF After
  <2> QED BY <2>1
<1>2. ASSUME NEW m \in 1 .. n, m - 1 \in T PROVE m \in T
  <2>1. PICK g : After(g, changes, m - 1)
    BY <1>2
  <2> DEFINE h == [k \in 0 .. m |-> IF k = m THEN Perform(g[m - 1], changes[m]) ELSE g[k]]
  <2>2. ASSUME NEW k \in 0 .. m
        PROVE  h[k] = IF k = 0 THEN AsFound ELSE Perform(h[k - 1], changes[k])
    <3>1. CASE k = m
      <4>1. m - 1 \in 0 .. m /\ m - 1 # m /\ m # 0
        OBVIOUS
      <4> QED BY <3>1, <4>1
    <3>2. CASE k # m
      <4>1. k \in 0 .. m - 1 /\ (k # 0 => k - 1 \in 0 .. m /\ k - 1 # m)
        BY <3>2
      <4>2. g[k] = IF k = 0 THEN AsFound ELSE Perform(g[k - 1], changes[k])
        BY <2>1, <4>1 DEF After
      <4> QED BY <3>2, <4>1, <4>2
    <3> QED BY <3>1, <3>2
  <2>3. After(h, changes, m)
    BY <2>2 DEF After
  <2>4. m \in 0 .. n
    OBVIOUS
  <2> HIDE DEF h
  <2> QED BY <2>3, <2>4
<1> HIDE DEF T
<1>3. n \in T
  BY <1>1, <1>2, SetInduction
<1>4. \E g : After(g, changes, n)
  BY <1>3 DEF T
<1> DEFINE after == CHOOSE g : After(g, changes, n)
<1>5. After(after, changes, n)
  BY <1>4
<1>6. Carry(changes, n) = after[n]
  BY DEF Carry, After
<1> QED BY <1>5, <1>6

-----------------------------------------------------------------------------
\* A home with its manifest, as a run holds it; a manifest that lists what is signed.
LedgerFields == {"line", "owned", "copies", "made", "backed"}
IsHome(st) ==
  /\ st = [ok |-> st.ok, files |-> st.files, folders |-> st.folders, backups |-> st.backups,
           ledger |-> st.ledger]
  /\ DOMAIN st.ledger = LedgerFields
  /\ IsFiniteSet(DOMAIN st.files)
Accounted(st) == OfTheKit(st.files) \subseteq DOMAIN st.ledger.owned

(***************************************************************************)
(* The manifest lists every file with the kit's signature, unless a run    *)
(* ended without saving it; an uninstall that waits is a list of deletions *)
(* that has them all.                                                      *)
(***************************************************************************)
KInv ==
  /\ IsFiniteSet(DOMAIN files)
  /\ ledger # NoLedger => DOMAIN ledger = LedgerFields
  /\ ~lapsed => OfTheKit(files) \subseteq DOMAIN Ledger.owned
  /\ pending.cmd = "uninstall" =>
       /\ Len(pending.changes) \in Nat
       /\ \A i \in 1 .. Len(pending.changes) : pending.changes[i].do = "delete"
       /\ ~lapsed => \A p \in OfTheKit(files) :
            \E i \in 1 .. Len(pending.changes) : pending.changes[i].at = p

\* The manifest as it is read, and as a run begins with it.
LEMMA LedgerFacts ==
  ASSUME ledger # NoLedger => DOMAIN ledger = LedgerFields
  PROVE  /\ DOMAIN Ledger = LedgerFields
         /\ ledger # NoLedger => DOMAIN Ledger.owned = DOMAIN ledger.owned
         /\ ledger = NoLedger => DOMAIN Ledger.owned = {}
         /\ DOMAIN LedgerBase = LedgerFields /\ LedgerBase.owned = Ledger.owned
<1>1. CASE ledger = NoLedger
  <2>1. Ledger = [line |-> FALSE, owned |-> <<>>, copies |-> {}, made |-> {}, backed |-> FALSE]
    BY <1>1 DEF Ledger
  <2> QED BY <1>1, <2>1 DEF LedgerFields, LedgerBase
<1>2. CASE ledger # NoLedger /\ ~ledger.line
  <2>1. Ledger = ledger /\ DOMAIN ledger = LedgerFields
    BY <1>2 DEF Ledger
  <2> QED BY <1>2, <2>1 DEF LedgerFields, LedgerBase
<1>3. CASE ledger # NoLedger /\ ledger.line
  <2> DEFINE who == [p \in DOMAIN ledger.owned |-> p \in {PrefsDest(n) : n \in PrefsNames}
                                   \/ ReadFile(files, p).own = "user"]
  <2>1. Ledger = [ledger EXCEPT !.owned = who] /\ DOMAIN ledger = LedgerFields
    BY <1>3 DEF Ledger
  <2>2. DOMAIN who = DOMAIN ledger.owned
    OBVIOUS
  <2> HIDE DEF who
  <2> QED BY <1>3, <2>1, <2>2 DEF LedgerFields, LedgerBase
<1> QED BY <1>1, <1>2, <1>3

\* What is in the folder of a skill is neither its own path nor preferences.
LEMMA InsideFacts ==
  ASSUME NEW fs, NEW p
  PROVE  /\ Inside(fs, p) \subseteq DOMAIN fs /\ p \notin Inside(fs, p) /\ ~InSkill(p, p)
         /\ \A q \in DOMAIN fs : q \in Inside(fs, p) <=> InSkill(q, p)
         /\ \A n : ~InSkill(PrefsDest(n), p)
BY DEF Inside, InSkill, IsStrictPrefix, PrefsDest

\* What is left when a path goes, with its folder if it is a skill.
LEMMA RemovedFacts ==
  ASSUME NEW fs, NEW p
  PROVE  /\ DOMAIN Without(fs, {p} \cup Inside(fs, p)) = { q \in DOMAIN fs : q # p /\ ~InSkill(q, p) }
         /\ \A q \in DOMAIN Without(fs, {p} \cup Inside(fs, p)) :
              Without(fs, {p} \cup Inside(fs, p))[q] = fs[q]
         /\ IsFiniteSet(DOMAIN fs) => IsFiniteSet(DOMAIN Without(fs, {p} \cup Inside(fs, p)))
<1>1. DOMAIN Without(fs, {p} \cup Inside(fs, p)) = { q \in DOMAIN fs : q # p /\ ~InSkill(q, p) }
  BY DEF Without, Inside
<1>2. \A q \in DOMAIN Without(fs, {p} \cup Inside(fs, p)) :
        Without(fs, {p} \cup Inside(fs, p))[q] = fs[q]
  BY DEF Without
<1>3. { q \in DOMAIN fs : q # p /\ ~InSkill(q, p) } \in SUBSET DOMAIN fs
  OBVIOUS
<1> QED BY <1>1, <1>2, <1>3, FS_Subset

\* A change writes no file of the kit without recording it.
LEMMA PerformFacts ==
  ASSUME NEW st, NEW ch, IsHome(st)
  PROVE  IsHome(Perform(st, ch)) /\ (Accounted(st) => Accounted(Perform(st, ch)))
<1> DEFINE p == ch.at
           note(q, user) == [st.ledger EXCEPT !.owned = Having(@, q, user)]
           noted == [note(p, ch.user) EXCEPT !.copies = IF ch.copy THEN @ \cup {p} ELSE @]
<1>a. /\ DOMAIN st = {"ok", "files", "folders", "backups", "ledger"}
      /\ DOMAIN st.ledger = LedgerFields /\ IsFiniteSet(DOMAIN st.files)
  BY DEF IsHome
<1>b. ASSUME NEW q, NEW user
      PROVE  /\ DOMAIN note(q, user) = LedgerFields
             /\ note(q, user).owned = Having(st.ledger.owned, q, user)
  BY <1>a DEF LedgerFields
<1>c. DOMAIN noted = LedgerFields /\ noted.owned = Having(st.ledger.owned, p, ch.user)
  BY <1>b DEF LedgerFields
<1>1. CASE ~(st.ok /\ Doable(st, ch))
  <2>1. Perform(st, ch) = [st EXCEPT !.ok = FALSE]
    BY <1>1 DEF Perform
  <2> QED BY <1>a, <2>1 DEF IsHome, Accounted
<1>2. CASE st.ok /\ Doable(st, ch) /\ ch.do = "put"
  <2> DEFINE fs == Having(st.files, p, ch.file)
  <2>1. Perform(st, ch) = [st EXCEPT !.files = fs, !.folders = @ \cup {FolderOf(p)}, !.ledger = noted]
    BY <1>2 DEF Perform
  <2>2. IsFiniteSet(DOMAIN fs) /\ OfTheKit(fs) \subseteq OfTheKit(st.files) \cup {p}
    BY <1>a, FS_AddElement DEF OfTheKit, Having
  <2>3. Accounted(st) => OfTheKit(fs) \subseteq DOMAIN noted.owned
    BY <1>a, <1>c, <2>2 DEF Having, Accounted
  <2> HIDE DEF fs, noted
  <2> QED BY <1>a, <1>c, <2>1, <2>2, <2>3 DEF IsHome, Accounted
<1>9. CASE st.ok /\ Doable(st, ch) /\ ch.do = "skill"
  <2> DEFINE rest == Without(st.files, {p} \cup Inside(st.files, p))
             fs == Having(rest, p, ch.file)
  <2>1. Perform(st, ch) = [st EXCEPT !.files = fs, !.folders = @ \cup {FolderOf(p)}, !.ledger = noted]
    BY <1>9 DEF Perform
  <2>a. /\ DOMAIN rest = { q \in DOMAIN st.files : q # p /\ ~InSkill(q, p) }
        /\ \A q \in DOMAIN rest : rest[q] = st.files[q]
        /\ IsFiniteSet(DOMAIN st.files) => IsFiniteSet(DOMAIN rest)
    BY RemovedFacts, Zenon
  <2> HIDE DEF rest
  <2>2. /\ IsFiniteSet(DOMAIN rest) /\ DOMAIN rest \subseteq DOMAIN st.files
        /\ \A q \in DOMAIN rest : rest[q] = st.files[q]
    BY <1>a, <2>a
  <2>3. /\ DOMAIN fs = DOMAIN rest \cup {p}
        /\ \A q \in DOMAIN fs : q # p => fs[q] = rest[q]
    BY DEF Having
  <2> HIDE DEF fs
  <2>4. IsFiniteSet(DOMAIN fs) /\ OfTheKit(fs) \subseteq OfTheKit(st.files) \cup {p}
    BY <2>2, <2>3, FS_AddElement DEF OfTheKit
  <2>5. Accounted(st) => OfTheKit(fs) \subseteq DOMAIN noted.owned
    BY <1>a, <1>c, <2>4 DEF Having, Accounted
  <2> HIDE DEF noted
  <2> QED BY <1>a, <1>c, <2>1, <2>4, <2>5 DEF IsHome, Accounted
<1>3. CASE st.ok /\ Doable(st, ch) /\ ch.do = "note"
  <2>1. Perform(st, ch) = [st EXCEPT !.ledger = noted]
    BY <1>3 DEF Perform
  <2>2. Accounted(st) => OfTheKit(st.files) \subseteq DOMAIN noted.owned
    BY <1>a, <1>c DEF Having, Accounted
  <2> HIDE DEF noted
  <2> QED BY <1>a, <1>c, <2>1, <2>2 DEF IsHome, Accounted
<1>4. CASE st.ok /\ Doable(st, ch) /\ ch.do = "backup"
  <2>1. Perform(st, ch) = [st EXCEPT !.backups = @ \cup {st.files[p]}, !.ledger.backed = TRUE]
    BY <1>4 DEF Perform
  <2>2. Perform(st, ch).ledger = [st.ledger EXCEPT !.backed = TRUE]
    BY <1>a, <2>1
  <2> QED BY <1>a, <2>1, <2>2 DEF IsHome, Accounted, LedgerFields
<1>5. CASE st.ok /\ Doable(st, ch) /\ ch.do = "move"
  <2> DEFINE fs == Having(Without(st.files, {p}), ch.to, st.files[p])
             own == Having(Without(st.ledger.owned, {p}), ch.to, TRUE)
             l == [st.ledger EXCEPT !.owned = own]
  <2>1. Perform(st, ch) = [st EXCEPT !.files = fs, !.ledger.owned = own]
    BY <1>5 DEF Perform
  <2>2. Perform(st, ch) = [st EXCEPT !.files = fs, !.ledger = l]
    BY <1>a, <2>1
  <2>3. IsFiniteSet(DOMAIN fs) /\ OfTheKit(fs) \subseteq (OfTheKit(st.files) \ {p}) \cup {ch.to}
    <3>1. DOMAIN fs = (DOMAIN st.files \ {p}) \cup {ch.to}
      BY DEF Having, Without
    <3>2. \A q \in DOMAIN st.files \ {p} : q # ch.to => fs[q] = st.files[q]
      BY DEF Having, Without
    <3>3. IsFiniteSet(DOMAIN st.files \ {p})
      BY <1>a, FS_RemoveElement
    <3> HIDE DEF fs
    <3> QED BY <3>1, <3>2, <3>3, FS_AddElement DEF OfTheKit
  <2>4. DOMAIN own = (DOMAIN st.ledger.owned \ {p}) \cup {ch.to}
    BY DEF Having, Without
  <2> HIDE DEF fs, own
  <2>5. DOMAIN l = LedgerFields /\ l.owned = own
    BY <1>a DEF LedgerFields
  <2> HIDE DEF l
  <2> QED BY <1>a, <2>2, <2>3, <2>4, <2>5 DEF IsHome, Accounted
<1>6. CASE st.ok /\ Doable(st, ch) /\ ch.do = "keep"
  <2>1. Perform(st, ch) = IF p \in DOMAIN st.files THEN [st EXCEPT !.ledger = note(p, TRUE)] ELSE st
    BY <1>6 DEF Perform
  <2>2. /\ DOMAIN note(p, TRUE) = LedgerFields
        /\ Accounted(st) => OfTheKit(st.files) \subseteq DOMAIN note(p, TRUE).owned
    BY <1>a, <1>b DEF Having, Accounted
  <2> HIDE DEF note
  <2> QED BY <1>a, <2>1, <2>2 DEF IsHome, Accounted
<1>7. CASE st.ok /\ Doable(st, ch) /\ ch.do = "drop"
  <2> DEFINE fs == Without(st.files, {p} \cup Inside(st.files, p))
             own == Without(st.ledger.owned, {p})
             l == [st.ledger EXCEPT !.owned = own]
  <2>1. Perform(st, ch) = [st EXCEPT !.files = fs, !.ledger.owned = own]
    BY <1>7 DEF Perform
  <2>2. Perform(st, ch) = [st EXCEPT !.files = fs, !.ledger = l]
    BY <1>a, <2>1
  <2>a. /\ DOMAIN fs = { q \in DOMAIN st.files : q # p /\ ~InSkill(q, p) }
        /\ \A q \in DOMAIN fs : fs[q] = st.files[q]
        /\ IsFiniteSet(DOMAIN st.files) => IsFiniteSet(DOMAIN fs)
    BY RemovedFacts, Zenon
  <2>3. IsFiniteSet(DOMAIN fs) /\ OfTheKit(fs) \subseteq OfTheKit(st.files) \ {p}
    <3> HIDE DEF fs
    <3> QED BY <1>a, <2>a DEF OfTheKit
  <2>4. DOMAIN own = DOMAIN st.ledger.owned \ {p}
    BY DEF Without
  <2> HIDE DEF fs, own
  <2>5. DOMAIN l = LedgerFields /\ l.owned = own
    BY <1>a DEF LedgerFields
  <2> HIDE DEF l
  <2> QED BY <1>a, <2>2, <2>3, <2>4, <2>5 DEF IsHome, Accounted
<1>8. CASE st.ok /\ Doable(st, ch) /\ ch.do \notin {"put", "skill", "note", "backup", "move", "keep", "drop"}
  <2> DEFINE fs == Without(st.files, {p} \cup Inside(st.files, p))
  <2>1. Perform(st, ch) = [st EXCEPT !.files = fs]
    BY <1>8 DEF Perform
  <2>a. /\ DOMAIN fs = { q \in DOMAIN st.files : q # p /\ ~InSkill(q, p) }
        /\ \A q \in DOMAIN fs : fs[q] = st.files[q]
        /\ IsFiniteSet(DOMAIN st.files) => IsFiniteSet(DOMAIN fs)
    BY RemovedFacts, Zenon
  <2>2. IsFiniteSet(DOMAIN fs) /\ OfTheKit(fs) \subseteq OfTheKit(st.files) \ {p}
    <3> HIDE DEF fs
    <3> QED BY <1>a, <2>a DEF OfTheKit
  <2> HIDE DEF fs
  <2> QED BY <1>a, <2>1, <2>2 DEF IsHome, Accounted
<1> QED BY <1>1, <1>2, <1>3, <1>4, <1>5, <1>6, <1>7, <1>8, <1>9

\* A change of an uninstall deletes its file, if it can, and writes none.
LEMMA DeletionFacts ==
  ASSUME NEW st, NEW ch, IsHome(st), ch.do = "delete"
  PROVE  /\ IsHome(Perform(st, ch))
         /\ Perform(st, ch).ok => st.ok /\ ch.at \notin DOMAIN Perform(st, ch).files
         /\ DOMAIN Perform(st, ch).files \subseteq DOMAIN st.files
         /\ \A p \in DOMAIN st.files :
              p \in DOMAIN Perform(st, ch).files \/ p = ch.at \/ InSkill(p, ch.at)
         /\ \A p \in DOMAIN Perform(st, ch).files : Perform(st, ch).files[p] = st.files[p]
<1>a. DOMAIN st = {"ok", "files", "folders", "backups", "ledger"} /\ IsFiniteSet(DOMAIN st.files)
  BY DEF IsHome
<1>1. CASE ~(st.ok /\ Doable(st, ch))
  <2>1. Perform(st, ch) = [st EXCEPT !.ok = FALSE]
    BY <1>1 DEF Perform
  <2> QED BY <1>a, <2>1 DEF IsHome
<1>2. CASE st.ok /\ Doable(st, ch)
  <2> DEFINE fs == Without(st.files, {ch.at} \cup Inside(st.files, ch.at))
  <2>1. Perform(st, ch) = [st EXCEPT !.files = fs]
    BY <1>2 DEF Perform
  <2>2. /\ IsFiniteSet(DOMAIN fs) /\ DOMAIN fs = { p \in DOMAIN st.files : p # ch.at /\ ~InSkill(p, ch.at) }
        /\ \A p \in DOMAIN fs : fs[p] = st.files[p]
    BY <1>a, RemovedFacts
  <2> HIDE DEF fs
  <2> QED BY <1>a, <1>2, <2>1, <2>2 DEF IsHome
<1> QED BY <1>1, <1>2

\* So it is for a whole run, wherever it stopped.
LEMMA CarryKeeps ==
  ASSUME KInv, NEW changes, NEW n \in Nat
  PROVE  IsHome(Carry(changes, n)) /\ (~lapsed => Accounted(Carry(changes, n)))
<1>1. IsHome(AsFound) /\ (~lapsed => Accounted(AsFound))
  BY LedgerFacts DEF KInv, AsFound, IsHome, Accounted
<1>2. PICK g : After(g, changes, n) /\ Carry(changes, n) = g[n]
  BY CarryFacts
<1> DEFINE T == {k \in 0 .. n : IsHome(g[k]) /\ (~lapsed => Accounted(g[k]))}
<1>3. 0 \in T
  BY <1>1, <1>2 DEF After
<1>4. ASSUME NEW k \in 1 .. n, k - 1 \in T PROVE k \in T
  <2>1. g[k] = Perform(g[k - 1], changes[k]) /\ k \in 0 .. n
    BY <1>2 DEF After
  <2> QED BY <1>4, <2>1, PerformFacts
<1> HIDE DEF T
<1>5. n \in T
  BY <1>3, <1>4, SetInduction
<1> QED BY <1>2, <1>5 DEF T

\* Carried out in full, an uninstall deletes every file of its plan.
LEMMA CarryDeletes ==
  ASSUME KInv, NEW changes, NEW n \in Nat, \A i \in 1 .. n : changes[i].do = "delete"
  PROVE  /\ IsFiniteSet(DOMAIN Carry(changes, n).files)
         /\ DOMAIN Carry(changes, n).files \subseteq DOMAIN files
         /\ \A p \in DOMAIN Carry(changes, n).files : Carry(changes, n).files[p] = files[p]
         /\ \A p \in DOMAIN files :
              \/ p \in DOMAIN Carry(changes, n).files
              \/ \E i \in 1 .. n : p = changes[i].at \/ InSkill(p, changes[i].at)
         /\ Carry(changes, n).ok => \A i \in 1 .. n : changes[i].at \notin DOMAIN Carry(changes, n).files
<1> DEFINE Right(st, k) ==
             /\ IsHome(st)
             /\ DOMAIN st.files \subseteq DOMAIN files
             /\ \A p \in DOMAIN st.files : st.files[p] = files[p]
             /\ \A p \in DOMAIN files :
                  p \in DOMAIN st.files \/ \E i \in 1 .. k : p = changes[i].at \/ InSkill(p, changes[i].at)
             /\ st.ok => \A i \in 1 .. k : changes[i].at \notin DOMAIN st.files
<1>1. Right(AsFound, 0)
  BY LedgerFacts DEF KInv, AsFound, IsHome
<1>2. PICK g : After(g, changes, n) /\ Carry(changes, n) = g[n]
  BY CarryFacts
<1> DEFINE T == {k \in 0 .. n : Right(g[k], k)}
<1>3. 0 \in T
  BY <1>1, <1>2 DEF After
<1>4. ASSUME NEW k \in 1 .. n, k - 1 \in T PROVE k \in T
  <2>1. g[k] = Perform(g[k - 1], changes[k]) /\ k \in 0 .. n /\ changes[k].do = "delete"
    BY <1>2 DEF After
  <2>2. Right(g[k - 1], k - 1)
    BY <1>4
  <2>3. /\ IsHome(g[k])
        /\ g[k].ok => g[k - 1].ok /\ changes[k].at \notin DOMAIN g[k].files
        /\ DOMAIN g[k].files \subseteq DOMAIN g[k - 1].files
        /\ \A p \in DOMAIN g[k - 1].files :
             p \in DOMAIN g[k].files \/ p = changes[k].at \/ InSkill(p, changes[k].at)
        /\ \A p \in DOMAIN g[k].files : g[k].files[p] = g[k - 1].files[p]
    BY <2>1, <2>2, DeletionFacts
  <2>4. 1 .. k = (1 .. k - 1) \cup {k}
    OBVIOUS
  <2>5. Right(g[k], k)
    BY <2>2, <2>3, <2>4
  <2> QED BY <2>1, <2>5
<1> HIDE DEF T
<1>5. n \in T
  BY <1>3, <1>4, SetInduction
<1>6. Right(g[n], n)
  BY <1>5 DEF T
<1> QED BY <1>2, <1>6 DEF IsHome

\* The deletions of a set of files are a list that has them all.
LEMMA DeletionsFacts ==
  ASSUME NEW paths, IsFiniteSet(paths), NEW A, paths \subseteq A
  PROVE  /\ Deletions(paths) \in Seq({RemoveFile(p) : p \in A})
         /\ \A p \in paths : \E i \in 1 .. Len(Deletions(paths)) : Deletions(paths)[i] = RemoveFile(p)
<1> DEFINE n == Cardinality(paths)
           s == SetToSeq(paths)
<1>1. n \in Nat /\ s \in [1 .. n -> paths] /\ \A p \in paths : \E i \in 1 .. n : s[i] = p
  BY OrderFacts
<1> HIDE DEF s, n
<1>8. Deletions(paths) = [i \in 1 .. n |-> RemoveFile(s[i])]
  BY DEF Deletions, n, s
<1>9. \A i \in 1 .. n : Deletions(paths)[i] \in {RemoveFile(p) : p \in A}
  BY <1>1, <1>8
<1>10. Deletions(paths) \in Seq({RemoveFile(p) : p \in A}) /\ Len(Deletions(paths)) = n
  BY <1>1, <1>8, <1>9, ListOf
<1>11. ASSUME NEW p \in paths
       PROVE  \E i \in 1 .. Len(Deletions(paths)) : Deletions(paths)[i] = RemoveFile(p)
  <2>1. PICK i \in 1 .. n : s[i] = p
    BY <1>1
  <2>2. Deletions(paths)[i] = RemoveFile(p)
    BY <1>8, <2>1
  <2> QED BY <1>10, <2>2
<1> QED BY <1>10, <1>11

-----------------------------------------------------------------------------
LEMMA KitInitHolds ==
  ASSUME KitInit PROVE KInv
<1>1. start \in Starts /\ files = start.files /\ ledger = start.ledger
  BY DEF KitInit
<1>2. ledger # NoLedger => DOMAIN ledger = LedgerFields
  BY <1>1, StartsAssumption DEF StartsAssumption, LedgerFields
<1>3. IsFiniteSet(DOMAIN files) /\ OfTheKit(files) \subseteq DOMAIN Ledger.owned
  BY <1>1, <1>2, LedgerFacts, StartsAssumption DEF StartsAssumption
<1>4. pending.cmd # "uninstall"
  BY DEF KitInit, Nobody
<1> QED BY <1>2, <1>3, <1>4 DEF KInv

\* The same, of the manifest a step leaves.
LEMMA LedgerNext ==
  ASSUME ledger' # NoLedger => DOMAIN ledger' = LedgerFields
  PROVE  DOMAIN Ledger'.owned = IF ledger' = NoLedger THEN {} ELSE DOMAIN ledger'.owned
<1>1. CASE ledger' = NoLedger
  BY <1>1 DEF Ledger
<1>2. CASE ledger' # NoLedger /\ ~ledger'.line
  BY <1>2 DEF Ledger
<1>3. CASE ledger' # NoLedger /\ ledger'.line
  <2> DEFINE who == [p \in DOMAIN ledger'.owned |-> p \in {PrefsDest(n) : n \in PrefsNames}
                                 \/ ReadFile(files', p).own = "user"]
  <2>1. Ledger' = [ledger' EXCEPT !.owned = who]
    BY <1>3 DEF Ledger
  <2>2. DOMAIN who = DOMAIN ledger'.owned
    OBVIOUS
  <2> HIDE DEF who
  <2> QED BY <1>3, <2>1, <2>2 DEF LedgerFields
<1> QED BY <1>1, <1>2, <1>3

\* Nothing signed is new: what the manifest lists is still enough.
LEMMA LedgerKept ==
  ASSUME KInv, ledger' = ledger, OfTheKit(files') \subseteq OfTheKit(files)
  PROVE  ~lapsed => OfTheKit(files') \subseteq DOMAIN Ledger'.owned
BY LedgerFacts, LedgerNext DEF KInv

LEMMA PlanRunKeeps ==
  ASSUME KInv, PlanRun PROVE KInv'
<1>1. PICK c, changes, missing : ShowPlan(c, changes, missing) /\ c.cmd \in {"install", "configure"}
  <2>1. PICK cmd \in {"install", "configure"}, r \in start.releases, a \in start.answers,
             m \in BOOLEAN, d \in start.custom :
          LET c == [cmd |-> cmd, release |-> r, answers |-> a, migrate |-> m, folder |-> d]
          IN  /\ \A n \in Kit[r].prefs : Answerable(n, Kit[r].template[n], AnswersFor(c, n), m)
              /\ ShowPlan(c, PlanInstall(c), MissingFolders(c))
    BY Zenon DEF PlanRun
  <2> DEFINE c == [cmd |-> cmd, release |-> r, answers |-> a, migrate |-> m, folder |-> d]
  <2>2. ShowPlan(c, PlanInstall(c), MissingFolders(c)) /\ c.cmd = cmd
    BY <2>1
  <2> HIDE DEF c
  <2> QED BY <2>2
<1>2. UNCHANGED <<files, ledger, lapsed>> /\ pending'.cmd # "uninstall"
  BY <1>1 DEF ShowPlan
<1>3. ~lapsed => OfTheKit(files') \subseteq DOMAIN Ledger'.owned
  BY <1>2, LedgerKept
<1> QED BY <1>2, <1>3 DEF KInv

LEMMA PlanRemovalKeeps ==
  ASSUME KInv, PlanRemoval PROVE KInv'
<1>1. PICK owned \in BOOLEAN :
        ShowPlan([cmd |-> "uninstall", owned |-> owned],
                 PlanUninstall([cmd |-> "uninstall", owned |-> owned]), {})
  BY DEF PlanRemoval
<1> DEFINE c == [cmd |-> "uninstall", owned |-> owned]
           first == Deletions(OnLedger("managed"))
           rest == IF c.owned THEN Deletions(OnLedger("user")) ELSE <<>>
           A == {RemoveFile(p) : p \in DOMAIN files}
<1>2. UNCHANGED <<files, ledger, lapsed>> /\ pending'.changes = PlanUninstall(c)
  BY <1>1 DEF ShowPlan
<1>3. PlanUninstall(c) = first \o rest
  BY DEF PlanUninstall
<1>4. \A own : OnLedger(own) \subseteq DOMAIN files /\ IsFiniteSet(OnLedger(own))
  <2>1. \A own : OnLedger(own) \in SUBSET DOMAIN files
    BY DEF OnLedger
  <2> QED BY <1>2, <2>1, FS_Subset DEF KInv
<1>5. first \in Seq(A) /\ \A p \in OnLedger("managed") : \E i \in 1 .. Len(first) : first[i] = RemoveFile(p)
  BY <1>4, DeletionsFacts
<1>6. rest \in Seq(A)
  <2>1. Deletions(OnLedger("user")) \in Seq(A) /\ <<>> \in Seq(A)
    BY <1>4, DeletionsFacts
  <2> QED BY <2>1
<1> HIDE DEF first, rest, A
<1>7. /\ first \o rest \in Seq(A) /\ Len(first \o rest) \in Nat
      /\ \A i \in 1 .. Len(first) : i \in 1 .. Len(first \o rest) /\ (first \o rest)[i] = first[i]
      /\ \A i \in 1 .. Len(first \o rest) : (first \o rest)[i] \in A
  BY <1>5, <1>6
<1>8. ~lapsed => OfTheKit(files) \subseteq OnLedger("managed")
  BY <1>2 DEF KInv, OnLedger, OfTheKit
<1>9. \A i \in 1 .. Len(first \o rest) : (first \o rest)[i].do = "delete"
  BY <1>7 DEF A, RemoveFile
<1>10. ASSUME ~lapsed, NEW p \in OfTheKit(files)
       PROVE  \E i \in 1 .. Len(first \o rest) : (first \o rest)[i].at = p
  <2>1. PICK i \in 1 .. Len(first) : first[i] = RemoveFile(p)
    BY <1>5, <1>8, <1>10
  <2> QED BY <1>7, <2>1 DEF RemoveFile
<1>11. ~lapsed => OfTheKit(files') \subseteq DOMAIN Ledger'.owned
  BY <1>2, LedgerKept
<1> DEFINE plan == first \o rest
<1>12. /\ Len(plan) \in Nat
       /\ \A i \in 1 .. Len(plan) : plan[i].do = "delete"
       /\ ~lapsed => \A p \in OfTheKit(files) : \E i \in 1 .. Len(plan) : plan[i].at = p
  BY <1>7, <1>9, <1>10
<1>13. pending'.changes = plan
  BY <1>2, <1>3
<1> HIDE DEF plan
<1> QED BY <1>2, <1>11, <1>12, <1>13 DEF KInv

LEMMA CancelKeeps ==
  ASSUME KInv, Cancel PROVE KInv'
<1>1. UNCHANGED <<files, ledger, lapsed>> /\ pending'.cmd # "uninstall"
  BY DEF Cancel, Nobody
<1>2. ~lapsed => OfTheKit(files') \subseteq DOMAIN Ledger'.owned
  BY <1>1, LedgerKept
<1> QED BY <1>1, <1>2 DEF KInv

LEMMA InstallRunKeeps ==
  ASSUME KInv, InstallRun PROVE KInv'
<1>1. PICK n \in 0 .. Len(pending.changes), saved \in BOOLEAN :
        LET st == Carry(pending.changes, n)
            l == Recorded(st, pending.missing)
        IN  /\ files' = st.files
            /\ IF ~saved THEN ledger' = ledger /\ lapsed' = TRUE
               ELSE /\ ledger' = IF ledger = NoLedger /\ NothingRecorded(l) THEN NoLedger ELSE l
                    /\ lapsed' = lapsed
  BY DEF InstallRun
<1> DEFINE st == Carry(pending.changes, n)
           l == Recorded(st, pending.missing)
<1>2. pending'.cmd # "uninstall" /\ files' = st.files /\ n \in Nat
  BY <1>1 DEF InstallRun, Nobody
<1>3. IsHome(st) /\ (~lapsed => Accounted(st))
  BY <1>2, CarryKeeps
<1>4. IF ~saved THEN ledger' = ledger /\ lapsed' = TRUE
      ELSE /\ ledger' = IF ledger = NoLedger /\ NothingRecorded(l) THEN NoLedger ELSE l
           /\ lapsed' = lapsed
  BY <1>1
<1> HIDE DEF st
<1>5. IsFiniteSet(DOMAIN files')
  BY <1>2, <1>3 DEF IsHome
<1>6. CASE ~saved
  BY <1>2, <1>4, <1>5, <1>6 DEF KInv
<1>7. CASE saved
  <2>1. DOMAIN l = LedgerFields /\ l.owned = st.ledger.owned /\ l # NoLedger
    <3>1. DOMAIN st.ledger = LedgerFields
      BY <1>3 DEF IsHome
    <3>2. DOMAIN l = LedgerFields /\ l.owned = st.ledger.owned
      BY <3>1 DEF Recorded, LedgerFields
    <3>3. DOMAIN NoLedger = {}
      BY DEF NoLedger
    <3> HIDE DEF l
    <3> QED BY <3>2, <3>3 DEF LedgerFields
  <2> HIDE DEF l
  <2>2. ledger' # NoLedger => DOMAIN ledger' = LedgerFields
    BY <1>4, <1>7, <2>1
  <2>3. ~lapsed => OfTheKit(files') \subseteq DOMAIN Ledger'.owned
    <3>1. CASE ledger = NoLedger /\ NothingRecorded(l)
      <4>1. l.owned = <<>>
        BY <3>1 DEF NothingRecorded
      <4> QED BY <1>2, <1>3, <2>1, <4>1 DEF Accounted
    <3>2. CASE ~(ledger = NoLedger /\ NothingRecorded(l))
      <4>1. ledger' = l
        BY <1>4, <1>7, <3>2
      <4> QED BY <1>2, <1>3, <2>1, <2>2, <4>1, LedgerNext DEF Accounted
    <3> QED BY <3>1, <3>2
  <2> QED BY <1>2, <1>4, <1>5, <1>7, <2>2, <2>3 DEF KInv
<1> QED BY <1>6, <1>7

LEMMA UninstallRunKeeps ==
  ASSUME KInv, UninstallRun PROVE KInv'
<1>1. PICK n \in 0 .. Len(pending.changes), removed \in BOOLEAN :
        LET st == Carry(pending.changes, n)
            whole == n = Len(pending.changes) /\ st.ok /\ removed
        IN  files' = st.files /\ ledger' = IF whole THEN NoLedger ELSE ledger
  BY DEF UninstallRun
<1> DEFINE st == Carry(pending.changes, n)
           whole == n = Len(pending.changes) /\ st.ok /\ removed
<1>2. /\ pending.cmd = "uninstall" /\ lapsed' = lapsed /\ pending'.cmd # "uninstall"
      /\ files' = st.files /\ ledger' = IF whole THEN NoLedger ELSE ledger
  BY <1>1 DEF UninstallRun, Nobody
<1>3. /\ Len(pending.changes) \in Nat
      /\ \A i \in 1 .. Len(pending.changes) : pending.changes[i].do = "delete"
      /\ ~lapsed => \A p \in OfTheKit(files) :
           \E i \in 1 .. Len(pending.changes) : pending.changes[i].at = p
  BY <1>2 DEF KInv
<1>4. n \in Nat /\ \A i \in 1 .. n : i \in 1 .. Len(pending.changes)
  BY <1>3
<1>5. /\ IsFiniteSet(DOMAIN st.files)
      /\ DOMAIN st.files \subseteq DOMAIN files
      /\ \A p \in DOMAIN st.files : st.files[p] = files[p]
      /\ st.ok => \A i \in 1 .. n : pending.changes[i].at \notin DOMAIN st.files
  BY <1>2, <1>3, <1>4, CarryDeletes
<1> HIDE DEF st
<1>6. OfTheKit(files') \subseteq OfTheKit(files)
  BY <1>2, <1>5 DEF OfTheKit
<1>7. CASE whole
  <2>1. ~lapsed => OfTheKit(files') = {}
    <3> SUFFICES ASSUME ~lapsed, NEW p \in OfTheKit(files') PROVE FALSE
      OBVIOUS
    <3>1. PICK i \in 1 .. Len(pending.changes) : pending.changes[i].at = p
      BY <1>3, <1>6
    <3> QED BY <1>2, <1>5, <1>7, <3>1 DEF OfTheKit
  <2> QED BY <1>2, <1>5, <1>7, <2>1 DEF KInv
<1>8. CASE ~whole
  <2>1. ~lapsed => OfTheKit(files') \subseteq DOMAIN Ledger'.owned
    BY <1>2, <1>6, <1>8, LedgerKept
  <2> QED BY <1>2, <1>5, <1>8, <2>1 DEF KInv
<1> QED BY <1>7, <1>8

LEMMA TouchKeeps ==
  ASSUME KInv, Touch PROVE KInv'
<1>1. PICK t \in Touches :
        /\ t.do # "write" => t.at \in DOMAIN files
        /\ CASE t.do = "write" -> files' = Having(files, t.at, t.file)
             [] t.do = "set" -> files' = [files EXCEPT ![t.at] =
                  [own |-> @.own, body |-> Having(@.body, t.heading, t.value)]]
             [] t.do = "disown" -> files' = [files EXCEPT ![t.at] =
                  [own |-> "none", body |-> @.body]]
             [] OTHER -> files' = Without(files, {t.at})
  BY DEF Touch
<1>2. UNCHANGED <<ledger, pending, lapsed>>
  BY DEF Touch
<1>3. IsFiniteSet(DOMAIN files') /\ OfTheKit(files') \subseteq OfTheKit(files)
  <2>0. IsFiniteSet(DOMAIN files)
    BY <1>2 DEF KInv
  <2>1. CASE t.do = "write"
    <3>1. files' = Having(files, t.at, t.file) /\ t.file.own # "managed"
      BY <1>1, <2>1, TouchesAssumption DEF TouchesAssumption
    <3>2. DOMAIN files' = DOMAIN files \cup {t.at}
          /\ \A p \in DOMAIN files' : files'[p] = IF p = t.at THEN t.file ELSE files[p]
      BY <3>1 DEF Having
    <3> QED BY <2>0, <3>1, <3>2, FS_AddElement DEF OfTheKit
  <2>2. CASE t.do = "set"
    <3> DEFINE f == [own |-> files[t.at].own, body |-> Having(files[t.at].body, t.heading, t.value)]
    <3>1. files' = [files EXCEPT ![t.at] = f]
      BY <1>1, <2>2
    <3>2. f.own = files[t.at].own
      OBVIOUS
    <3> HIDE DEF f
    <3> QED BY <1>1, <2>0, <2>2, <3>1, <3>2 DEF OfTheKit
  <2>3. CASE t.do = "disown"
    <3>1. files' = [files EXCEPT ![t.at] = [own |-> "none", body |-> files[t.at].body]]
      BY <1>1, <2>3
    <3> QED BY <2>0, <3>1 DEF OfTheKit
  <2>4. CASE t.do \notin {"write", "set", "disown"}
    <3>1. files' = Without(files, {t.at})
      BY <1>1, <2>4
    <3>2. DOMAIN files' = DOMAIN files \ {t.at} /\ \A p \in DOMAIN files' : files'[p] = files[p]
      BY <3>1 DEF Without
    <3> QED BY <2>0, <3>2, FS_RemoveElement DEF OfTheKit
  <2> QED BY <2>1, <2>2, <2>3, <2>4
<1>4. ~lapsed => OfTheKit(files') \subseteq DOMAIN Ledger'.owned
  BY <1>2, <1>3, LedgerKept
<1> QED BY <1>2, <1>3, <1>4 DEF KInv

(***************************************************************************)
(* Once the kit is uninstalled nothing of it is in the home, whatever      *)
(* releases were installed, in part or after each other, and whatever a    *)
(* person did to the files (uninstall.rs plan, apply.rs run_steps).        *)
(***************************************************************************)
THEOREM KitFilesNothingLeft == KitSpec => []NothingLeftBehind
<1>1. KitInit => KInv
  BY KitInitHolds
<1>2. KInv /\ [KitNext]_kitVars => KInv'
  <2> SUFFICES ASSUME KInv, [KitNext]_kitVars PROVE KInv'
    OBVIOUS
  <2>1. CASE UNCHANGED kitVars
    BY <2>1 DEF KInv, kitVars, Ledger, ReadFile
  <2> QED BY <2>1, PlanRunKeeps, PlanRemovalKeeps, CancelKeeps, InstallRunKeeps,
             UninstallRunKeeps, TouchKeeps DEF KitNext
<1>3. KInv => NothingLeftBehind
  BY LedgerFacts DEF KInv, NothingLeftBehind
<1> QED BY <1>1, <1>2, <1>3, PTL DEF KitSpec

-----------------------------------------------------------------------------
(***************************************************************************)
(* What a plan may do to the text f under a heading of a file.  w says     *)
(* where the file was found (from), where the plan leaves it (to), and     *)
(* whether what is written there keeps the text, or is preceded by a copy. *)
(***************************************************************************)
Dests == {PrefsDest(n) : n \in PrefsNames}
Consult == PrefsDest("consult")
Aside == PrefsDest("aside")

Answered(call, q, h) == \E n \in PrefsNames : q = PrefsDest(n) /\ h \in DOMAIN AnswersFor(call, n)
KeepsText(w, g) == Value(g.body, w.head) = w.file.body[w.head] \/ Answered(w.call, w.to, w.head)

TameMove(ch, w) ==
  ch.at = Aside /\ ch.to = Consult /\ w.from # Consult /\ (w.from = Aside => w.to = Consult)
TamePut(s, i, w) ==
  /\ w.from = Aside => s[i].at # Aside
  /\ s[i].at = w.to => IF w.keeps THEN KeepsText(w, s[i].file) ELSE i > 1 /\ s[i - 1] = Backup(w.to)
Doings == {"put", "skill", "note", "backup", "move", "keep", "drop"}
Tame(s, i, w) ==
  /\ s[i].do \in Doings
  /\ s[i].do \in {"drop", "skill"} => s[i].at \notin {w.from, w.to} /\ ~InSkill(w.from, s[i].at)
  /\ s[i].do = "move" => TameMove(s[i], w)
  /\ s[i].do = "put" => TamePut(s, i, w)
Harmless(s, w) ==
  /\ Len(s) \in Nat /\ s = [i \in 1 .. Len(s) |-> s[i]]
  /\ \A i \in 1 .. Len(s) : Tame(s, i, w)
IsWatch(w) == w.to = w.from \/ (w.from = Aside /\ w.to = Consult)

\* The places of preferences are all different.
LEMMA PlacesDiffer ==
  /\ Consult # Aside /\ Consult \in Dests /\ Aside \in Dests /\ Primary \notin Dests
  /\ \A m, n \in PrefsNames : PrefsDest(m) = PrefsDest(n) => m = n
BY DEF Consult, Aside, Dests, Primary, PrefsDest, PrefsNames

\* What a change leaves of the files and of the backups.
Outcome(st, ch, next) ==
  \/ next.files = st.files /\ next.backups = st.backups /\ ~next.ok
  \/ st.ok /\ next.files = st.files /\ next.backups = st.backups /\ ch.do \in {"note", "keep"}
  \/ /\ st.ok /\ ch.do = "put"
     /\ next.files = Having(st.files, ch.at, ch.file) /\ next.backups = st.backups
  \/ /\ st.ok /\ ch.do = "backup" /\ ch.at \in DOMAIN st.files
     /\ next.files = st.files /\ next.backups = st.backups \cup {st.files[ch.at]}
  \/ /\ st.ok /\ ch.do = "move" /\ ch.at \in DOMAIN st.files
     /\ next.files = Having(Without(st.files, {ch.at}), ch.to, st.files[ch.at])
     /\ next.backups = st.backups
  \/ /\ st.ok /\ ch.do = "drop"
     /\ next.files = Without(st.files, {ch.at} \cup Inside(st.files, ch.at))
     /\ next.backups = st.backups
  \/ /\ st.ok /\ ch.do = "skill"
     /\ next.files = Having(Without(st.files, {ch.at} \cup Inside(st.files, ch.at)), ch.at, ch.file)
     /\ next.backups = st.backups

LEMMA PerformOnFiles ==
  ASSUME NEW st, NEW ch, IsHome(st), ch.do \in Doings
  PROVE  Outcome(st, ch, Perform(st, ch))
<1> DEFINE next == Perform(st, ch)
<1> SUFFICES Outcome(st, ch, next)
  OBVIOUS
<1>a. DOMAIN st = {"ok", "files", "folders", "backups", "ledger"}
  BY DEF IsHome
<1> DEFINE noted == [[st.ledger EXCEPT !.owned = Having(@, ch.at, ch.user)]
                       EXCEPT !.copies = IF ch.copy THEN @ \cup {ch.at} ELSE @]
<1>1. CASE ~(st.ok /\ Doable(st, ch))
  <2>1. next = [st EXCEPT !.ok = FALSE]
    BY <1>1 DEF Perform
  <2> HIDE DEF next
  <2> QED BY <1>a, <2>1 DEF Outcome
<1>2. CASE st.ok /\ Doable(st, ch) /\ ch.do = "put"
  <2>1. \E l : next = [st EXCEPT !.files = Having(@, ch.at, ch.file), !.folders = @ \cup {FolderOf(ch.at)},
                                 !.ledger = l]
    BY <1>2 DEF Perform
  <2> HIDE DEF next
  <2> QED BY <1>a, <1>2, <2>1 DEF Outcome
<1>3. CASE st.ok /\ Doable(st, ch) /\ ch.do = "note"
  <2>1. \E l : next = [st EXCEPT !.ledger = l]
    BY <1>3 DEF Perform
  <2> HIDE DEF next
  <2> QED BY <1>a, <1>3, <2>1 DEF Outcome
<1>4. CASE st.ok /\ Doable(st, ch) /\ ch.do = "backup"
  <2>1. next = [st EXCEPT !.backups = @ \cup {st.files[ch.at]}, !.ledger.backed = TRUE]
    BY <1>4 DEF Perform
  <2> HIDE DEF next
  <2> QED BY <1>a, <1>4, <2>1 DEF Outcome, Doable
<1>5. CASE st.ok /\ Doable(st, ch) /\ ch.do = "move"
  <2>1. \E l : next = [st EXCEPT !.files = Having(Without(@, {ch.at}), ch.to, st.files[ch.at]),
                                 !.ledger.owned = l]
    BY <1>5 DEF Perform
  <2> HIDE DEF next
  <2> QED BY <1>a, <1>5, <2>1 DEF Outcome, Doable
<1>6. CASE st.ok /\ Doable(st, ch) /\ ch.do = "keep"
  <2>1. next = st \/ \E l : next = [st EXCEPT !.ledger = l]
    BY <1>6 DEF Perform
  <2> HIDE DEF next
  <2> QED BY <1>a, <1>6, <2>1 DEF Outcome
<1>7. CASE st.ok /\ Doable(st, ch) /\ ch.do = "drop"
  <2>1. \E l : next = [st EXCEPT !.files = Without(@, {ch.at} \cup Inside(@, ch.at)), !.ledger.owned = l]
    BY <1>7 DEF Perform
  <2> HIDE DEF next
  <2> QED BY <1>a, <1>7, <2>1 DEF Outcome
<1>8. CASE st.ok /\ Doable(st, ch) /\ ch.do = "skill"
  <2>1. \E l : next = [st EXCEPT !.files = Having(Without(@, {ch.at} \cup Inside(@, ch.at)), ch.at, ch.file),
                                 !.folders = @ \cup {FolderOf(ch.at)}, !.ledger = l]
    BY <1>8 DEF Perform
  <2> HIDE DEF next
  <2> QED BY <1>a, <1>8, <2>1 DEF Outcome
<1> QED BY <1>1, <1>2, <1>3, <1>4, <1>5, <1>6, <1>7, <1>8 DEF Doings

(***************************************************************************)
(* Where the file is after k changes, and what is left of the text.        *)
(***************************************************************************)
Held(w, changes, k, st, x) ==
  IF w.keeps THEN KeepsText(w, st.files[x])
  ELSE w.file \in st.backups
       \/ (st.files[x] = w.file /\ (k > 0 /\ st.ok => changes[k] # Backup(x)))
Watched(w, changes, k, st) ==
  /\ IsHome(st)
  /\ \/ /\ w.from \in DOMAIN st.files
        /\ IF w.to = w.from THEN Held(w, changes, k, st, w.from) ELSE st.files[w.from] = w.file
     \/ /\ w.to # w.from /\ w.from \notin DOMAIN st.files /\ w.to \in DOMAIN st.files
        /\ Held(w, changes, k, st, w.to)

\* A tame change does not lose the text.
LEMMA WatchedKeeps ==
  ASSUME NEW w, IsWatch(w), w.head \in DOMAIN w.file.body, w.keeps \in BOOLEAN,
         NEW changes, NEW k \in Nat \ {0}, Tame(changes, k, w),
         NEW st, Watched(w, changes, k - 1, st)
  PROVE  Watched(w, changes, k, Perform(st, changes[k]))
<1> DEFINE ch == changes[k]
           next == Perform(st, ch)
<1>1. IsHome(st) /\ IsHome(next)
  BY PerformFacts DEF Watched
<1>2. ch.do \in Doings
  BY DEF Tame
<1>a. w.file.body[w.head] = Value(w.file.body, w.head) /\ KeepsText(w, w.file)
  BY DEF Value, KeepsText
<1>b. k > 0 /\ k - 1 \in Nat /\ (k > 1 <=> k - 1 > 0)
  OBVIOUS
<1>8. next = Perform(st, ch)
  OBVIOUS
<1>9. \/ /\ w.from \in DOMAIN st.files
         /\ IF w.to = w.from THEN Held(w, changes, k - 1, st, w.from) ELSE st.files[w.from] = w.file
      \/ /\ w.to # w.from /\ w.from \notin DOMAIN st.files /\ w.to \in DOMAIN st.files
         /\ Held(w, changes, k - 1, st, w.to)
  BY DEF Watched
<1> SUFFICES
      \/ /\ w.from \in DOMAIN next.files
         /\ IF w.to = w.from THEN Held(w, changes, k, next, w.from) ELSE next.files[w.from] = w.file
      \/ /\ w.to # w.from /\ w.from \notin DOMAIN next.files /\ w.to \in DOMAIN next.files
         /\ Held(w, changes, k, next, w.to)
  BY <1>1 DEF Watched
<1> HIDE DEF next
<1>3. CASE next.files = st.files /\ next.backups = st.backups /\ (~next.ok \/ ch.do \in {"note", "keep"})
  <2>1. \A x : ch = Backup(x) => ch.do = "backup"
    BY DEF Backup
  <2>2. \A x : Held(w, changes, k - 1, st, x) => Held(w, changes, k, next, x)
    BY <1>3, <2>1 DEF Held
  <2> QED BY <1>9, <1>3, <2>2
<1>4. CASE /\ st.ok /\ ch.do = "put"
           /\ next.files = Having(st.files, ch.at, ch.file) /\ next.backups = st.backups
  <2>1. /\ DOMAIN next.files = DOMAIN st.files \cup {ch.at}
        /\ \A x \in DOMAIN next.files : next.files[x] = IF x = ch.at THEN ch.file ELSE st.files[x]
    BY <1>4 DEF Having
  <2>2. \A x : ch # Backup(x)
    BY <1>4 DEF Backup
  <2>3. TamePut(changes, k, w)
    BY <1>4 DEF Tame
  <2>4. ASSUME Held(w, changes, k - 1, st, w.to), w.to \in DOMAIN st.files
        PROVE  Held(w, changes, k, next, w.to)
    <3>1. CASE ch.at # w.to
      <4>1. next.files[w.to] = st.files[w.to]
        BY <2>1, <2>4, <3>1
      <4> QED BY <1>4, <2>2, <2>4, <4>1 DEF Held
    <3>2. CASE ch.at = w.to /\ w.keeps
      <4>1. KeepsText(w, next.files[w.to])
        BY <2>1, <2>3, <3>2 DEF TamePut
      <4> QED BY <3>2, <4>1 DEF Held
    <3>3. CASE ch.at = w.to /\ ~w.keeps
      <4>1. k > 1 /\ changes[k - 1] = Backup(w.to)
        BY <2>3, <3>3 DEF TamePut
      <4>2. w.file \in st.backups
        BY <1>b, <1>4, <2>4, <3>3, <4>1 DEF Held
      <4> QED BY <1>4, <3>3, <4>2 DEF Held
    <3> QED BY <3>1, <3>2, <3>3
  <2>5. CASE w.to = w.from
    BY <1>9, <2>1, <2>4, <2>5
  <2>6. CASE w.to # w.from
    <3>1. ch.at # w.from
      BY <2>3, <2>6 DEF TamePut, IsWatch
    <3> QED BY <1>9, <2>1, <2>4, <2>6, <3>1
  <2> QED BY <2>5, <2>6
<1>5. CASE /\ st.ok /\ ch.do = "backup" /\ ch.at \in DOMAIN st.files
           /\ next.files = st.files /\ next.backups = st.backups \cup {st.files[ch.at]}
  <2>1. \A x : ch = Backup(x) => ch.at = x
    BY DEF Backup
  <2>2. \A x : Held(w, changes, k - 1, st, x) => Held(w, changes, k, next, x)
    BY <1>5, <2>1 DEF Held
  <2> QED BY <1>9, <1>5, <2>2
<1>6. CASE /\ st.ok /\ ch.do = "move" /\ ch.at \in DOMAIN st.files
           /\ next.files = Having(Without(st.files, {ch.at}), ch.to, st.files[ch.at])
           /\ next.backups = st.backups
  <2>1. /\ DOMAIN next.files = (DOMAIN st.files \ {ch.at}) \cup {ch.to}
        /\ \A x \in DOMAIN next.files :
             next.files[x] = IF x = ch.to THEN st.files[ch.at] ELSE st.files[x]
    BY <1>6 DEF Having, Without
  <2>2. \A x : ch # Backup(x)
    BY <1>6 DEF Backup
  <2>3. TameMove(ch, w)
    BY <1>6 DEF Tame
  <2>4. CASE w.to = w.from
    <3>1. w.from # Aside /\ w.from # Consult
      BY <2>3, <2>4, PlacesDiffer DEF TameMove
    <3>2. w.from \in DOMAIN next.files /\ next.files[w.from] = st.files[w.from]
      BY <2>1, <2>3, <2>4, <3>1, <1>9 DEF TameMove
    <3>3. Held(w, changes, k - 1, st, w.from) => Held(w, changes, k, next, w.from)
      BY <1>6, <2>2, <3>2 DEF Held
    <3> QED BY <1>9, <2>4, <3>2, <3>3
  <2>5. CASE w.to # w.from
    <3>1. w.from = Aside /\ w.to = Consult /\ ch.at = Aside /\ ch.to = Consult
      BY <2>3, <2>5 DEF TameMove, IsWatch
    <3>2. w.from \in DOMAIN st.files /\ st.files[w.from] = w.file
      BY <1>6, <1>9, <2>5, <3>1
    <3>3. w.from \notin DOMAIN next.files /\ w.to \in DOMAIN next.files /\ next.files[w.to] = w.file
      BY <2>1, <3>1, <3>2, PlacesDiffer
    <3>4. Held(w, changes, k, next, w.to)
      BY <1>a, <2>2, <3>3 DEF Held
    <3> QED BY <1>9, <2>5, <3>3, <3>4
  <2> QED BY <2>4, <2>5
<1>7. CASE /\ st.ok /\ ch.do \in {"drop", "skill"} /\ next.backups = st.backups
           /\ \/ next.files = Without(st.files, {ch.at} \cup Inside(st.files, ch.at))
              \/ next.files = Having(Without(st.files, {ch.at} \cup Inside(st.files, ch.at)), ch.at, ch.file)
  <2>1. ch.at \notin {w.from, w.to} /\ ~InSkill(w.from, ch.at) /\ ~InSkill(w.to, ch.at)
    BY <1>7, InsideFacts DEF Tame, IsWatch, Consult
  <2> DEFINE rest == Without(st.files, {ch.at} \cup Inside(st.files, ch.at))
  <2>2. /\ DOMAIN rest = { q \in DOMAIN st.files : q # ch.at /\ ~InSkill(q, ch.at) }
        /\ \A x \in DOMAIN rest : rest[x] = st.files[x]
    BY RemovedFacts
  <2> HIDE DEF rest
  <2>3. \A x : ch # Backup(x)
    BY <1>7 DEF Backup
  <2>4. next.files = rest \/ next.files = Having(rest, ch.at, ch.file)
    BY <1>7 DEF rest
  <2>5. ASSUME NEW x \in {w.from, w.to}
        PROVE  /\ x \in DOMAIN st.files <=> x \in DOMAIN next.files
               /\ x \in DOMAIN st.files => next.files[x] = st.files[x]
    <3>1. x # ch.at /\ ~InSkill(x, ch.at)
      BY <2>1
    <3> QED BY <2>2, <2>4, <3>1 DEF Having
  <2>6. \A x \in {w.from, w.to} :
          x \in DOMAIN st.files /\ Held(w, changes, k - 1, st, x) => Held(w, changes, k, next, x)
    BY <1>7, <2>3, <2>5 DEF Held
  <2> QED BY <1>9, <2>5, <2>6
<1> HIDE DEF ch
<1>10. Outcome(st, ch, next)
  BY <1>1, <1>2, <1>8, PerformOnFiles
<1> QED BY <1>3, <1>4, <1>5, <1>6, <1>7, <1>10 DEF Outcome

\* Carried out whole or in part, a plan whose every change is tame does not lose the text.
LEMMA CarryWatched ==
  ASSUME KInv, NEW w, IsWatch(w), w.head \in DOMAIN w.file.body, w.keeps \in BOOLEAN,
         w.from \in DOMAIN files, files[w.from] = w.file,
         NEW changes, NEW n \in Nat, \A i \in 1 .. n : Tame(changes, i, w)
  PROVE  Watched(w, changes, n, Carry(changes, n))
<1>1. Watched(w, changes, 0, AsFound)
  <2>1. IsHome(AsFound) /\ AsFound.files = files
    BY LedgerFacts DEF KInv, AsFound, IsHome
  <2>2. KeepsText(w, w.file)
    BY DEF Value, KeepsText
  <2> HIDE DEF AsFound
  <2>3. Held(w, changes, 0, AsFound, w.from)
    BY <2>1, <2>2 DEF Held
  <2> QED BY <2>1, <2>3 DEF Watched
<1>2. PICK g : After(g, changes, n) /\ Carry(changes, n) = g[n]
  BY CarryFacts
<1> DEFINE T == {k \in 0 .. n : Watched(w, changes, k, g[k])}
<1>3. 0 \in T
  BY <1>1, <1>2 DEF After
<1>4. ASSUME NEW k \in 1 .. n, k - 1 \in T PROVE k \in T
  <2>1. g[k] = Perform(g[k - 1], changes[k]) /\ k \in 0 .. n /\ k \in Nat \ {0}
    BY <1>2 DEF After
  <2>2. Watched(w, changes, k - 1, g[k - 1])
    BY <1>4
  <2> QED BY <2>1, <2>2, WatchedKeeps
<1> HIDE DEF T
<1>5. n \in T
  BY <1>3, <1>4, SetInduction
<1> QED BY <1>2, <1>5 DEF T

-----------------------------------------------------------------------------
\* Tame lists, one after the other, make a tame list.
LEMMA HarmlessOfOne ==
  ASSUME NEW w, NEW ch, Tame(<<ch>>, 1, w)
  PROVE  Harmless(<<ch>>, w)
<1>1. \A i \in 1 .. Len(<<ch>>) : i = 1
  OBVIOUS
<1> QED BY <1>1 DEF Harmless

LEMMA HarmlessOfNone == \A w : Harmless(<<>>, w)
BY DEF Harmless

LEMMA HarmlessBoth ==
  ASSUME NEW w, NEW s, NEW t, Harmless(s, w), Harmless(t, w)
  PROVE  Harmless(s \o t, w)
<1>1. s \in Seq({s[i] : i \in 1 .. Len(s)} \cup {t[i] : i \in 1 .. Len(t)})
      /\ t \in Seq({s[i] : i \in 1 .. Len(s)} \cup {t[i] : i \in 1 .. Len(t)})
  BY ListOf DEF Harmless
<1> DEFINE A == {s[i] : i \in 1 .. Len(s)} \cup {t[i] : i \in 1 .. Len(t)}
<1>2. /\ s \o t \in Seq(A) /\ Len(s \o t) = Len(s) + Len(t) /\ Len(s) \in Nat /\ Len(t) \in Nat
      /\ \A i \in 1 .. Len(s) : (s \o t)[i] = s[i]
      /\ \A i \in 1 .. Len(t) : (s \o t)[Len(s) + i] = t[i]
  BY <1>1
<1>3. ASSUME NEW i \in 1 .. Len(s \o t) PROVE Tame(s \o t, i, w)
  <2>1. CASE i \in 1 .. Len(s)
    <3>1. Tame(s, i, w) /\ (s \o t)[i] = s[i]
      BY <1>2, <2>1 DEF Harmless
    <3>2. i > 1 => (s \o t)[i - 1] = s[i - 1]
      BY <1>2, <2>1
    <3> QED BY <3>1, <3>2 DEF Tame, TamePut
  <2>2. CASE i \notin 1 .. Len(s)
    <3> DEFINE j == i - Len(s)
    <3>1. j \in 1 .. Len(t) /\ i = Len(s) + j
      BY <1>2, <2>2
    <3>2. Tame(t, j, w) /\ (s \o t)[i] = t[j]
      BY <1>2, <3>1 DEF Harmless
    <3>3. j > 1 => i > 1 /\ (s \o t)[i - 1] = t[j - 1]
      <4>1. j > 1 => j - 1 \in 1 .. Len(t) /\ i - 1 = Len(s) + (j - 1)
        BY <1>2, <3>1
      <4> QED BY <1>2, <3>1, <4>1
    <3> HIDE DEF j
    <3> QED BY <3>2, <3>3 DEF Tame, TamePut
  <2> QED BY <2>1, <2>2
<1>4. \A u \in Seq(A) : Len(u) \in Nat /\ u = [i \in 1 .. Len(u) |-> u[i]]
  OBVIOUS
<1> HIDE DEF A
<1> QED BY <1>2, <1>3, <1>4 DEF Harmless

\* So do the lists of a list of lists, and what is planned for each of some files.
LEMMA HarmlessFlat ==
  ASSUME NEW w, NEW ss, Len(ss) \in Nat, ss = [i \in 1 .. Len(ss) |-> ss[i]],
         \A i \in 1 .. Len(ss) : Harmless(ss[i], w)
  PROVE  Harmless(FlattenSeq(ss), w)
<1>1. CASE Len(ss) = 0
  <2>1. FlattenSeq(ss) = ss
    BY <1>1 DEF FlattenSeq
  <2> QED BY <1>1, <2>1 DEF Harmless
<1>2. CASE Len(ss) # 0
  <2>1. PICK g : Flattened(g, ss) /\ FlattenSeq(ss) = g[Len(ss)]
    BY <1>2, FlattenFacts
  <2> DEFINE n == Len(ss)
             T == {i \in 0 .. n : i = 0 \/ Harmless(g[i], w)}
  <2>2. 0 \in T
    OBVIOUS
  <2>3. ASSUME NEW i \in 1 .. n, i - 1 \in T PROVE i \in T
    <3>1. g[i] = IF i = 1 THEN ss[i] ELSE g[i - 1] \o ss[i]
      BY <2>1 DEF Flattened
    <3>2. Harmless(ss[i], w) /\ (i # 1 => Harmless(g[i - 1], w))
      BY <2>3
    <3> QED BY <3>1, <3>2, HarmlessBoth
  <2> HIDE DEF T
  <2>4. n \in T
    BY <2>2, <2>3, SetInduction
  <2> QED BY <1>2, <2>1, <2>4 DEF T
<1> QED BY <1>1, <1>2

LEMMA HarmlessEach ==
  ASSUME NEW w, NEW plan, IsFiniteSet(DOMAIN plan), \A x \in DOMAIN plan : Harmless(plan[x], w)
  PROVE  Harmless(Each(plan), w)
<1> DEFINE order == SetToSeq(DOMAIN plan)
           n == Cardinality(DOMAIN plan)
           ss == [i \in 1 .. n |-> plan[order[i]]]
<1>1. n \in Nat /\ order \in [1 .. n -> DOMAIN plan]
  BY OrderFacts
<1>2. Each(plan) = FlattenSeq(ss)
  BY DEF Each
<1>3. \A i \in 1 .. n : ss[i] \in {plan[x] : x \in DOMAIN plan} /\ Harmless(ss[i], w)
  BY <1>1
<1>4. ss = [i \in 1 .. n |-> ss[i]]
  OBVIOUS
<1> HIDE DEF order, n, ss
<1>5. Len(ss) = n
  BY <1>1, <1>3, <1>4, ListOf
<1> QED BY <1>1, <1>2, <1>3, <1>4, <1>5, HarmlessFlat

-----------------------------------------------------------------------------
(***************************************************************************)
(* The watch over a heading of a file that is not the kit's, when c is     *)
(* planned: only a preferences file under its earlier name is moved, and   *)
(* only a migration writes over what a layout knows.                       *)
(***************************************************************************)
Place(c, p) ==
  IF p = Aside /\ "consult" \in Kit[c.release].prefs /\ Consult \notin DOMAIN files THEN Consult ELSE p
Migrates(c, q, h) ==
  /\ h \in OfTheLayouts /\ c.migrate
  /\ \E n \in Kit[c.release].prefs : PrefsDest(n) = q /\ PrefsState(n).state = "legacy"
WatchOf(c, p, h) ==
  [from |-> p, to |-> Place(c, p), file |-> files[p], head |-> h, call |-> c,
   keeps |-> IF Place(c, p) \in Dests /\ ~Migrates(c, Place(c, p), h) THEN TRUE ELSE FALSE]
Theirs(c, p, h) ==
  /\ p \in DOMAIN files /\ files[p].own # "managed" /\ p \notin Ledger.copies
  /\ h \in DOMAIN files[p].body /\ c.release \in DOMAIN Kit
  /\ c.cmd = "install" => \A q \in DOMAIN files : files[q].own = "managed" => ~InSkill(p, q)
IsWatchOf(w, c, p, h) ==
  /\ Theirs(c, p, h)
  /\ w.from = p /\ w.to = Place(c, p) /\ w.file = files[p] /\ w.head = h /\ w.call = c
  /\ w.keeps \in BOOLEAN /\ (w.keeps <=> Place(c, p) \in Dests /\ ~Migrates(c, Place(c, p), h))
  /\ IsWatch(w)

\* It can be kept.
LEMMA WatchOfIs ==
  ASSUME NEW c, NEW p, NEW h, Theirs(c, p, h)
  PROVE  IsWatchOf(WatchOf(c, p, h), c, p, h)
<1> DEFINE q == Place(c, p)
           keeps == IF q \in Dests /\ ~Migrates(c, q, h) THEN TRUE ELSE FALSE
<1>1. keeps \in BOOLEAN /\ (keeps <=> q \in Dests /\ ~Migrates(c, q, h))
  OBVIOUS
<1>2. WatchOf(c, p, h) = [from |-> p, to |-> q, file |-> files[p], head |-> h, call |-> c, keeps |-> keeps]
  BY DEF WatchOf
<1>3. q = p \/ (p = Aside /\ q = Consult)
  BY DEF Place
<1> HIDE DEF q, keeps
<1> DEFINE w == WatchOf(c, p, h)
<1>4. w.from = p /\ w.to = q /\ w.file = files[p] /\ w.head = h /\ w.call = c /\ w.keeps = keeps
  BY <1>2
<1> HIDE DEF w
<1>5. IsWatch(w)
  BY <1>3, <1>4 DEF IsWatch
<1>6. IsWatchOf(w, c, p, h)
  BY <1>1, <1>4, <1>5 DEF IsWatchOf, q
<1> QED BY <1>6 DEF w

\* A place where the person's file is, or will be, is no file of the kit.
LEMMA PlaceFacts ==
  ASSUME NEW c, NEW p, NEW h, NEW w, IsWatchOf(w, c, p, h), NEW x
  PROVE  /\ ReadFile(files, x).own = "managed" => x \in DOMAIN files /\ x \notin {w.from, w.to}
         /\ x \notin Dests => x # Aside /\ (x = w.to => x = p /\ ~w.keeps)
         /\ w.to # w.from => w.from = Aside /\ w.to = Consult /\ "consult" \in Kit[c.release].prefs
                             /\ Consult \notin DOMAIN files
<1>1. w.to # w.from => w.from = Aside /\ w.to = Consult /\ "consult" \in Kit[c.release].prefs
                             /\ Consult \notin DOMAIN files
  BY DEF IsWatchOf, Place
<1>2. ReadFile(files, x).own = "managed" => x \in DOMAIN files /\ files[x].own = "managed"
  BY DEF ReadFile, NoFile
<1>3. w.from = p /\ p \in DOMAIN files /\ files[p].own # "managed"
  BY DEF IsWatchOf, Theirs
<1>4. x \notin Dests /\ x = w.to => x = p /\ ~w.keeps
  BY <1>1, <1>3, PlacesDiffer DEF IsWatchOf
<1> QED BY <1>1, <1>2, <1>3, <1>4, PlacesDiffer

LEMMA DropHarmless ==
  ASSUME NEW c, NEW p, NEW h, NEW w, IsWatchOf(w, c, p, h), c.cmd = "install",
         NEW x \in StaleFiles(c.release)
  PROVE  Harmless(<< Drop(x) >>, w)
<1>1. x \notin {w.from, w.to} /\ ~InSkill(w.from, x)
  <2>1. ReadFile(files, x).own = "managed"
    BY DEF StaleFiles
  <2>2. x \in DOMAIN files /\ x \notin {w.from, w.to} /\ files[x].own = "managed"
    BY <2>1, PlaceFacts DEF ReadFile
  <2> QED BY <2>2 DEF IsWatchOf, Theirs
<1>2. Tame(<< Drop(x) >>, 1, w)
  BY <1>1 DEF Tame, Doings, Drop
<1> QED BY <1>2, HarmlessOfOne

LEMMA PutFacts ==
  ASSUME NEW x, NEW f, NEW user
  PROVE  /\ Put(x, f, user).at = x /\ Put(x, f, user).file = f
         /\ Put(x, f, user).do \in {"put", "note"}
         /\ PutCopy(x, f).at = x /\ PutCopy(x, f).file = f
         /\ PutCopy(x, f).do = IF ReadFile(files, x) = f THEN "note" ELSE "put"
BY DEF Put, PutCopy, Write

\* Text of the kit is written where nothing of the person's is, or after a copy of it.
LEMMA TextHarmless ==
  ASSUME NEW c, NEW p, NEW h, NEW w, IsWatchOf(w, c, p, h), NEW x, x \notin Dests, NEW f
  PROVE  Harmless(DecideText(x, f), w) /\ Harmless(DecideRule(x, f), w)
<1> DEFINE put == Put(x, f, FALSE)
<1>1. put.at = x /\ put.do \in {"put", "note"}
  BY DEF Put, Write
<1>2. x # Aside /\ (x = w.to => x = p /\ ~w.keeps)
  BY PlaceFacts
<1>3. x = p => x \in DOMAIN files /\ files[x].own # "managed"
  BY DEF IsWatchOf, Theirs
<1> HIDE DEF put
<1>4. Harmless(<< Backup(x), put >>, w)
  <2> DEFINE s == << Backup(x), put >>
  <2>1. Tame(s, 1, w)
    BY DEF Tame, Doings, Backup
  <2>2. Tame(s, 2, w)
    BY <1>1, <1>2 DEF Tame, TamePut, Doings
  <2>3. \A i \in 1 .. Len(s) : i = 1 \/ i = 2
    OBVIOUS
  <2>4. Len(s) \in Nat /\ s = [i \in 1 .. Len(s) |-> s[i]]
    OBVIOUS
  <2> QED BY <2>1, <2>2, <2>3, <2>4 DEF Harmless
<1>5. ASSUME ~(x \in DOMAIN files /\ files[x].own # "managed")
      PROVE  Harmless(<< put >>, w)
  <2>1. x # w.to
    BY <1>2, <1>3, <1>5
  <2>2. Tame(<< put >>, 1, w)
    BY <1>1, <1>2, <2>1 DEF Tame, TamePut, Doings
  <2> QED BY <2>2, HarmlessOfOne
<1>6. Harmless(DecideText(x, f), w)
  BY <1>4, <1>5 DEF DecideText, put
<1>7. Harmless(DecideRule(x, f), w)
  BY <1>6, HarmlessOfNone DEF DecideRule
<1> QED BY <1>6, <1>7

\* The folder of a skill is replaced where it is the kit's, or where nothing is.
LEMMA SkillHarmless ==
  ASSUME NEW c, NEW p, NEW h, NEW w, IsWatchOf(w, c, p, h), c.cmd = "install",
         NEW x, x \notin Dests, NEW f
  PROVE  Harmless(DecideSkill(x, f), w)
<1> DEFINE put == WriteSkill(x, f)
<1>1. put.at = x /\ put.do = "skill"
  BY DEF WriteSkill, Write
<1>2. /\ w.from = p /\ p \in DOMAIN files /\ files[p].own # "managed"
      /\ \A q \in DOMAIN files : files[q].own = "managed" => ~InSkill(p, q)
  BY DEF IsWatchOf, Theirs
<1>3. x = w.to => x = p
  BY PlaceFacts
<1>4. ReadFile(files, x).own = "managed" => x \in DOMAIN files /\ files[x].own = "managed"
  BY PlaceFacts DEF ReadFile
<1> HIDE DEF put
<1>5. ASSUME ReadFile(files, x).own = "managed" \/ (x \notin DOMAIN files /\ Inside(files, x) = {})
      PROVE  Harmless(<< put >>, w)
  <2>1. x \notin {w.from, w.to}
    BY <1>2, <1>3, <1>4, <1>5
  <2>2. ~InSkill(w.from, x)
    BY <1>2, <1>4, <1>5, InsideFacts
  <2>3. Tame(<< put >>, 1, w)
    BY <1>1, <2>1, <2>2 DEF Tame, Doings
  <2> QED BY <2>3, HarmlessOfOne
<1> QED BY <1>5, HarmlessOfNone DEF DecideSkill, put

\* A copy of a rule of the person's goes where nothing is, or what it is already.
LEMMA CopyHarmless ==
  ASSUME NEW c, NEW p, NEW h, NEW w, IsWatchOf(w, c, p, h),
         NEW x \in DOMAIN CustomRules(c.release, c.folder)
  PROVE  Harmless(<< PutCopy(x, CustomRules(c.release, c.folder)[x]) >>, w)
<1> DEFINE f == c.folder[x]
           put == PutCopy(x, f)
<1>1. /\ CustomRules(c.release, c.folder)[x] = f /\ x \notin Reserved(c.release)
      /\ x \in DOMAIN files => files[x] = f \/ x \in Ledger.copies
  BY DEF CustomRules
<1>2. put.at = x /\ put.do = IF ReadFile(files, x) = f THEN "note" ELSE "put"
  BY PutFacts
<1>3. x = w.from => put.do = "note"
  BY <1>1, <1>2 DEF IsWatchOf, Theirs, ReadFile
<1>4. x = w.to => x = w.from
  <2>1. Consult \in Reserved(c.release) \/ "consult" \notin Kit[c.release].prefs
    BY DEF Reserved, Consult
  <2> QED BY <1>1, <2>1, PlaceFacts
<1> HIDE DEF put
<1>5. Tame(<< put >>, 1, w)
  BY <1>2, <1>3, <1>4 DEF Tame, TamePut, Doings
<1>6. Harmless(<< put >>, w)
  BY <1>5, HarmlessOfOne
<1> QED BY <1>1, <1>6 DEF put

-----------------------------------------------------------------------------
\* Where the text of a preferences file is found.
LEMMA StateFacts ==
  ASSUME NEW n \in PrefsNames \ {"aside"}
  PROVE  /\ PrefsState(n).dest = PrefsDest(n) /\ PrefsDest(n) # Aside
         /\ PrefsState(n).body = ReadFile(files, PrefsState(n).at).body
         /\ PrefsState(n).state = "missing" <=> PrefsState(n).at \notin DOMAIN files
         /\ PrefsState(n).state \in {"missing", "legacy", "current"}
         /\ \/ PrefsState(n).from = {} /\ PrefsState(n).at = PrefsDest(n)
            \/ /\ PrefsState(n).from # {} /\ n = "consult" /\ PrefsState(n).at = Aside
               /\ Consult \notin DOMAIN files /\ Aside \in DOMAIN files
         /\ PrefsDest(n) \notin DOMAIN files /\ n = "consult" /\ Aside \in DOMAIN files
              => PrefsState(n).at = Aside
<1> DEFINE dest == PrefsDest(n)
           earlier == { PrefsDest(m) : m \in EarlierName(n) } \cap DOMAIN files
           from == IF dest \in DOMAIN files THEN {} ELSE earlier
           at == IF from = {} THEN dest ELSE CHOOSE p \in from : TRUE
           body == ReadFile(files, at).body
           state == CASE at \notin DOMAIN files -> "missing"
                   [] at \in DOMAIN files /\ (IsLegacyFormat(n, body)
                        \/ (Ledger.line /\ at \in DOMAIN Ledger.owned)) -> "legacy"
                   [] OTHER -> "current"
<1>1. PrefsState(n) = [dest |-> dest, from |-> from, at |-> at, body |-> body, state |-> state]
  BY DEF PrefsState
<1>2. state = "missing" <=> at \notin DOMAIN files
  OBVIOUS
<1>3. state \in {"missing", "legacy", "current"}
  OBVIOUS
<1>4. n # "consult" => earlier = {}
  BY DEF EarlierName
<1>5. n = "consult" => earlier = IF Aside \in DOMAIN files THEN {Aside} ELSE {}
  BY DEF EarlierName, Aside
<1>6. dest # Aside
  BY DEF Aside, PrefsDest, PrefsNames
<1>7. n = "consult" => dest = Consult
  BY DEF Consult
<1> HIDE DEF dest, earlier, state
<1>8. \/ from = {} /\ at = dest
      \/ from # {} /\ n = "consult" /\ at = Aside /\ Consult \notin DOMAIN files /\ Aside \in DOMAIN files
  BY <1>4, <1>5, <1>7
<1>9. dest \notin DOMAIN files /\ n = "consult" /\ Aside \in DOMAIN files => at = Aside
  BY <1>5
<1> HIDE DEF from, at, body
<1>10. /\ PrefsState(n).dest = dest /\ PrefsState(n).from = from /\ PrefsState(n).at = at
       /\ PrefsState(n).body = body /\ PrefsState(n).state = state
  BY <1>1
<1> QED BY <1>2, <1>3, <1>6, <1>8, <1>9, <1>10 DEF dest, body

\* A migration keeps what no layout knows.
LEMMA MigrateFacts ==
  ASSUME NEW n \in PrefsNames, NEW old, NEW template, DOMAIN template \subseteq SettingsOf(n) \cup Preserved,
         NEW h \in DOMAIN old, h \notin OfTheLayouts
  PROVE  h \in DOMAIN Migrate(n, old, template) /\ Migrate(n, old, template)[h] = old[h]
<1> DEFINE v == OldValues(n, old)
           own == DOMAIN old \ (DOMAIN template \cup Consumed(n) \cup Preserved)
           valid == [g \in { x \in DOMAIN v : Validate(n, x, v[x]) } |-> v[g]]
           kept == [g \in (Preserved \cap DOMAIN old) \cup own |-> old[g]]
<1>1. h \notin SettingsOf(n) /\ h \notin Consumed(n)
  BY DEF OfTheLayouts
<1>2. h \notin DOMAIN v
  <2>1. \A f : DOMAIN Readable(f) \subseteq DOMAIN f
    BY DEF Readable
  <2>2. DOMAIN ConsultValues(old) \subseteq SettingsOf("consult")
    BY DEF ConsultValues, Readable
  <2>3. DOMAIN DispatchValues(old) \subseteq {"Level", "Backend"}
    BY DEF DispatchValues, Readable
  <2>4. {"Level", "Backend"} \subseteq SettingsOf("dispatch")
    BY DEF SettingsOf
  <2>5. CASE n = "consult"
    BY <1>1, <2>2, <2>5 DEF OldValues
  <2>6. CASE n = "dispatch"
    BY <1>1, <2>3, <2>4, <2>6 DEF OldValues
  <2>7. CASE n \notin {"consult", "dispatch"}
    <3>1. v = Readable([g \in SettingsOf(n) |-> Value(old, g)])
      BY <2>7 DEF OldValues
    <3> QED BY <1>1, <2>1, <3>1
  <2> QED BY <2>5, <2>6, <2>7
<1>3. h \in DOMAIN kept /\ kept[h] = old[h]
  BY <1>1
<1>4. Migrate(n, old, template) = Over(valid, Over(kept, template))
  BY DEF Migrate
<1>5. h \notin DOMAIN valid
  BY <1>2
<1> HIDE DEF valid, kept
<1> QED BY <1>3, <1>4, <1>5 DEF Over

\* What is written where the file is, or will be, keeps the text under the heading, unless
\* the run was given an answer or migrates what a layout knows.
LEMMA WrittenKeeps ==
  ASSUME NEW c, NEW p, NEW h, NEW w, IsWatchOf(w, c, p, h), w.keeps,
         KitAssumption, NEW n \in Kit[c.release].prefs, n \in PrefsNames \ {"aside"},
         PrefsDest(n) = w.to, PrefsState(n).state = "legacy" => c.migrate,
         NEW f, f.body = Over(AnswersFor(c, n),
                              BaseDoc(n, PrefsState(n), Kit[c.release].template[n]))
  PROVE  KeepsText(w, f)
<1> DEFINE st == PrefsState(n)
           template == Kit[c.release].template[n]
           base == BaseDoc(n, st, template)
<1>1. w.from = p /\ p \in DOMAIN files /\ w.file = files[p] /\ w.head = h /\ h \in DOMAIN files[p].body
      /\ w.call = c
  BY DEF IsWatchOf, Theirs
<1>2. st.at = p
  <2>1. CASE w.to = w.from
    BY <1>1, <2>1, StateFacts DEF Consult
  <2>2. CASE w.to # w.from
    <3>1. w.from = Aside /\ w.to = Consult /\ Consult \notin DOMAIN files
      BY <2>2, PlaceFacts
    <3>2. n = "consult"
      BY <3>1 DEF Consult, PrefsDest
    <3> QED BY <1>1, <3>1, <3>2, StateFacts
  <2> QED BY <2>1, <2>2
<1>3. st.body = files[p].body /\ st.state \in {"legacy", "current"}
  BY <1>1, <1>2, StateFacts DEF ReadFile
<1>4. CASE h \in DOMAIN AnswersFor(c, n)
  BY <1>1, <1>4 DEF KeepsText, Answered
<1>5. CASE h \notin DOMAIN AnswersFor(c, n)
  <2>1. h \in DOMAIN base /\ base[h] = files[p].body[h]
    <3>1. CASE st.state = "current"
      <4>1. base = Over(st.body, [g \in SettingsOf(n) |-> template[g]])
        BY <3>1 DEF BaseDoc
      <4> QED BY <1>1, <1>3, <4>1 DEF Over
    <3>2. CASE st.state = "legacy"
      <4>1. base = Migrate(n, st.body, template)
        BY <3>2 DEF BaseDoc
      <4>2. h \notin OfTheLayouts
        BY <3>2 DEF IsWatchOf, Migrates
      <4>3. DOMAIN template \subseteq SettingsOf(n) \cup Preserved
        BY DEF KitAssumption, IsWatchOf, Theirs
      <4> HIDE DEF template, base
      <4> QED BY <1>1, <1>3, <4>1, <4>2, <4>3, MigrateFacts
    <3> QED BY <1>3, <3>1, <3>2
  <2> HIDE DEF base
  <2>2. f.body = Over(AnswersFor(c, n), base)
    BY DEF base
  <2>3. h \in DOMAIN f.body /\ f.body[h] = files[p].body[h]
    BY <1>5, <2>1, <2>2 DEF Over
  <2> QED BY <1>1, <2>3 DEF KeepsText, Value
<1> QED BY <1>4, <1>5

\* A preferences file is moved, then copied if it is migrated, then written.
LEMMA PrefsHarmless ==
  ASSUME KitAssumption, NEW c, NEW p, NEW h, NEW w, IsWatchOf(w, c, p, h),
         NEW n \in Kit[c.release].prefs
  PROVE  Harmless(PlanPrefs(n, Kit[c.release].template[n], AnswersFor(c, n), c.migrate), w)
<1> DEFINE st == PrefsState(n)
           template == Kit[c.release].template[n]
           answers == AnswersFor(c, n)
           body == Over(answers, BaseDoc(n, st, template))
           f == [own |-> "user", body |-> body]
           move == IF st.from = {} THEN <<>> ELSE << MoveTo(st.at, st.dest) >>
           put == Write(st.dest, f, TRUE)
<1>1. n \in PrefsNames \ {"aside"} /\ c.release \in DOMAIN Kit
  BY DEF KitAssumption, IsWatchOf, Theirs
<1>2. st.dest = PrefsDest(n) /\ st.dest # Aside /\ st.dest \in Dests
  BY <1>1, StateFacts DEF Dests
<1>3. Harmless(move, w)
  <2>1. CASE st.from = {}
    BY <2>1, HarmlessOfNone
  <2>2. CASE st.from # {}
    <3>1. /\ n = "consult" /\ st.at = Aside /\ st.dest = Consult
          /\ Consult \notin DOMAIN files /\ Aside \in DOMAIN files
      BY <1>1, <1>2, <2>2, StateFacts DEF Consult
    <3>2. w.from # Consult /\ (w.from = Aside => w.to = Consult)
      BY <3>1 DEF IsWatchOf, Theirs, Place
    <3>3. Tame(<< MoveTo(st.at, st.dest) >>, 1, w)
      BY <3>1, <3>2 DEF Tame, TameMove, Doings, MoveTo
    <3> QED BY <2>2, <3>3, HarmlessOfOne
  <2> QED BY <2>1, <2>2
<1>4. Harmless(<< Keep(st.dest) >>, w)
  <2>1. Tame(<< Keep(st.dest) >>, 1, w)
    BY DEF Tame, Doings, Keep
  <2> QED BY <2>1, HarmlessOfOne
<1>5. put.at = st.dest /\ put.do = "put" /\ put.file = f /\ f.body = body
  BY DEF Write
<1>6. w.keeps /\ (st.state = "legacy" => c.migrate) => KeepsText(w, f) \/ st.dest # w.to
  BY <1>1, <1>2, <1>5, WrittenKeeps
<1>7. st.dest = w.to /\ ~w.keeps => st.state = "legacy" /\ c.migrate
  <2> SUFFICES ASSUME st.dest = w.to, ~w.keeps PROVE st.state = "legacy" /\ c.migrate
    OBVIOUS
  <2>1. Migrates(c, w.to, h)
    BY <1>2 DEF IsWatchOf
  <2>2. PICK m \in Kit[c.release].prefs : PrefsDest(m) = w.to /\ PrefsState(m).state = "legacy"
    BY <2>1 DEF Migrates
  <2>3. m = n
    BY <1>1, <1>2, <2>2, PlacesDiffer DEF KitAssumption
  <2> QED BY <2>1, <2>2, <2>3 DEF Migrates
<1> HIDE DEF put, f, body
<1>8. ASSUME st.state # "legacy" PROVE Harmless(<< put >>, w)
  <2>1. Tame(<< put >>, 1, w)
    BY <1>2, <1>5, <1>6, <1>7, <1>8 DEF Tame, TamePut, Doings
  <2> QED BY <2>1, HarmlessOfOne
<1>9. ASSUME c.migrate PROVE Harmless(<< Backup(st.dest), put >>, w)
  <2> DEFINE s == << Backup(st.dest), put >>
  <2> SUFFICES Harmless(s, w)
    OBVIOUS
  <2>1. Tame(s, 1, w)
    BY DEF Tame, Doings, Backup
  <2>2. s[2] = put /\ s[1] = Backup(st.dest)
    OBVIOUS
  <2>3. \A i \in 1 .. Len(s) : i = 1 \/ i = 2
    OBVIOUS
  <2>4. Len(s) \in Nat /\ s = [i \in 1 .. Len(s) |-> s[i]]
    OBVIOUS
  <2> HIDE DEF s
  <2>5. Tame(s, 2, w)
    BY <1>2, <1>5, <1>6, <1>9, <2>2 DEF Tame, TamePut, Doings
  <2> QED BY <2>1, <2>3, <2>4, <2>5 DEF Harmless
<1> DEFINE plan == PlanPrefsOf(n, st, template, answers, c.migrate)
<1>10. PlanPrefs(n, template, answers, c.migrate) = plan
  BY DEF PlanPrefs
<1>11. plan = CASE st.state = "legacy" /\ ~c.migrate -> move \o << Keep(st.dest) >>
        [] st.state = "legacy" /\ c.migrate -> move \o << Backup(st.dest), put >>
        [] st.state = "current" /\ body = st.body -> move \o << Keep(st.dest) >>
        [] OTHER -> move \o << put >>
  BY DEF PlanPrefsOf, put, f, body
<1> HIDE DEF plan, move
<1>12. CASE st.state = "legacy" /\ ~c.migrate
  BY <1>3, <1>4, <1>10, <1>11, <1>12, HarmlessBoth
<1>13. CASE st.state = "legacy" /\ c.migrate
  BY <1>3, <1>9, <1>10, <1>11, <1>13, HarmlessBoth
<1>14. CASE st.state # "legacy"
  BY <1>3, <1>4, <1>8, <1>10, <1>11, <1>14, HarmlessBoth
<1> QED BY <1>12, <1>13, <1>14

\* What is planned keeps every text that is not the kit's.
LEMMA PlanHarmless ==
  ASSUME KInv, KitAssumption, NEW c, NEW p, NEW h, NEW w, IsWatchOf(w, c, p, h),
         IsFiniteSet(DOMAIN c.folder)
  PROVE  Harmless(PlanInstall(c), w)
<1> DEFINE r == c.release
           own == IF Concat THEN EffectiveRules(r, c.folder) ELSE {}
           all == c.cmd = "install"
           stale == [x \in StaleFiles(r) |-> << Drop(x) >>]
           rules == [x \in Kit[r].rules |-> DecideRule(x, KitText(r, x, {}))]
           skills == [x \in Kit[r].skills |-> DecideSkill(x, KitText(r, x, {}))]
           prefs == [n \in Kit[r].prefs |->
                       PlanPrefs(n, Kit[r].template[n], AnswersFor(c, n), c.migrate)]
           custom == CustomRules(r, c.folder)
           copies == [x \in DOMAIN custom |-> << PutCopy(x, custom[x]) >>]
           first == IF all THEN Each(stale) ELSE <<>>
           second == IF all \/ Concat THEN DecideText(Primary, KitText(r, Primary, own)) ELSE <<>>
           third == IF all THEN Each(rules) \o Each(skills) ELSE <<>>
<1>1. PlanInstall(c) = first \o second \o third \o Each(prefs) \o Each(copies)
  BY DEF PlanInstall
<1>2. r \in DOMAIN Kit
  BY DEF IsWatchOf, Theirs
<1>3. /\ IsFiniteSet(Kit[r].rules) /\ IsFiniteSet(Kit[r].skills)
      /\ (Kit[r].rules \cup Kit[r].skills) \cap Dests = {} /\ Kit[r].prefs \subseteq PrefsNames
  BY <1>2 DEF KitAssumption, Dests
<1>4. ASSUME all PROVE Harmless(Each(stale), w)
  <2>1. StaleFiles(r) \subseteq DOMAIN files
    BY PlaceFacts DEF StaleFiles
  <2>2. IsFiniteSet(DOMAIN stale)
    BY <2>1, FS_Subset DEF KInv
  <2>3. \A x \in DOMAIN stale : Harmless(stale[x], w)
    BY <1>4, DropHarmless
  <2> HIDE DEF stale
  <2> QED BY <2>2, <2>3, HarmlessEach
<1>5. Harmless(DecideText(Primary, KitText(r, Primary, own)), w)
  BY PlacesDiffer, TextHarmless
<1>6. Harmless(Each(rules), w)
  <2>1. \A x \in DOMAIN rules : Harmless(rules[x], w)
    BY <1>3, TextHarmless
  <2>2. IsFiniteSet(DOMAIN rules)
    BY <1>3
  <2> HIDE DEF rules
  <2> QED BY <2>1, <2>2, HarmlessEach
<1>7. ASSUME all PROVE Harmless(Each(skills), w)
  <2>1. \A x \in DOMAIN skills : Harmless(skills[x], w)
    BY <1>3, <1>7, SkillHarmless
  <2>2. IsFiniteSet(DOMAIN skills)
    BY <1>3
  <2> HIDE DEF skills
  <2> QED BY <2>1, <2>2, HarmlessEach
<1>8. Harmless(Each(prefs), w)
  <2>1. \A n \in DOMAIN prefs : Harmless(prefs[n], w)
    BY PrefsHarmless
  <2>2. IsFiniteSet(PrefsNames)
    <3> DEFINE one == {} \cup {"consult"}
               two == one \cup {"dispatch"}
               three == two \cup {"git"}
               four == three \cup {"aside"}
    <3>1. IsFiniteSet(one)
      BY FS_EmptySet, FS_AddElement
    <3>2. PrefsNames = four
      BY DEF PrefsNames
    <3> HIDE DEF one
    <3>3. IsFiniteSet(two)
      BY <3>1, FS_AddElement
    <3> HIDE DEF two
    <3>4. IsFiniteSet(three)
      BY <3>3, FS_AddElement
    <3> HIDE DEF three
    <3> QED BY <3>2, <3>4, FS_AddElement
  <2>3. IsFiniteSet(DOMAIN prefs)
    BY <1>3, <2>2, FS_Subset
  <2> HIDE DEF prefs
  <2> QED BY <2>1, <2>3, HarmlessEach
<1>9. Harmless(Each(copies), w)
  <2>1. \A x \in DOMAIN copies : Harmless(copies[x], w)
    BY CopyHarmless
  <2>2. DOMAIN custom \subseteq DOMAIN c.folder
    BY DEF CustomRules
  <2>3. IsFiniteSet(DOMAIN copies)
    BY <2>2, FS_Subset
  <2> HIDE DEF copies
  <2> QED BY <2>1, <2>3, HarmlessEach
<1> HIDE DEF stale, rules, skills, prefs, copies, own
<1>10. Harmless(first, w) /\ Harmless(second, w) /\ Harmless(third, w)
  BY <1>4, <1>5, <1>6, <1>7, HarmlessOfNone, HarmlessBoth
<1> HIDE DEF first, second, third
<1>11. Harmless(first \o second, w)
  BY <1>10, HarmlessBoth
<1>12. Harmless(first \o second \o third, w)
  BY <1>10, <1>11, HarmlessBoth
<1>13. Harmless(first \o second \o third \o Each(prefs), w)
  BY <1>8, <1>12, HarmlessBoth
<1>14. Harmless(first \o second \o third \o Each(prefs) \o Each(copies), w)
  BY <1>9, <1>13, HarmlessBoth
<1> QED BY <1>1, <1>14

-----------------------------------------------------------------------------
(***************************************************************************)
(* The plan that waits for its confirmation does no harm to what a person  *)
(* has not changed since; an uninstall deletes only what the manifest      *)
(* lists with the kit's signature, and what the person chose.              *)
(***************************************************************************)
StartInv ==
  /\ {"releases", "custom"} \subseteq DOMAIN start
  /\ start.releases \subseteq DOMAIN Kit
  /\ \A rules \in start.custom : IsFiniteSet(DOMAIN rules)
Watches(w, p, h) ==
  /\ IsWatch(w) /\ w.from = p /\ w.file = files[p] /\ w.head = h /\ w.call = pending.call
  /\ w.keeps \in BOOLEAN /\ (~w.keeps => p \notin Dests \/ h \in OfTheLayouts)
  /\ Harmless(pending.changes, w)
Spared(p) == ~Given(p) /\ ~GoesWithSkill(p)
PendingInv ==
  IF pending.cmd = "uninstall"
  THEN \A p \in DOMAIN files : Spared(p) =>
         \A i \in 1 .. Len(pending.changes) :
           p # pending.changes[i].at /\ ~InSkill(p, pending.changes[i].at)
  ELSE \A p \in DOMAIN files : \A h \in DOMAIN files[p].body :
         Spared(p) /\ p \notin Ledger.copies => \E w : Watches(w, p, h)
TheirsInv == KInv /\ StartInv /\ (pending # Nobody => PendingInv)

\* What a behaviour started from stays.
LEMMA StartKept ==
  ASSUME StartInv, NEW field, field \notin {"releases", "custom"}, NEW n, Spend(field, n) \/ UNCHANGED start
  PROVE  StartInv'
<1>1. /\ start'.releases = start.releases /\ start'.custom = start.custom
      /\ DOMAIN start' = DOMAIN start
  BY DEF Spend, StartInv
<1> QED BY <1>1 DEF StartInv

LEMMA PlanRunWatched ==
  ASSUME KInv, StartInv, KitAssumption, PlanRun
  PROVE  StartInv' /\ PendingInv'
<1>1. PICK cmd \in {"install", "configure"}, r \in start.releases, a \in start.answers,
           m \in BOOLEAN, d \in start.custom :
        LET c == [cmd |-> cmd, release |-> r, answers |-> a, migrate |-> m, folder |-> d]
        IN  /\ \A n \in Kit[r].prefs : Answerable(n, Kit[r].template[n], AnswersFor(c, n), m)
            /\ ShowPlan(c, PlanInstall(c), MissingFolders(c))
  BY Zenon DEF PlanRun
<1> DEFINE c == [cmd |-> cmd, release |-> r, answers |-> a, migrate |-> m, folder |-> d]
<1>2. ShowPlan(c, PlanInstall(c), MissingFolders(c)) /\ c.cmd \in {"install", "configure"}
      /\ c.release \in DOMAIN Kit /\ IsFiniteSet(DOMAIN c.folder)
  BY <1>1 DEF StartInv
<1> HIDE DEF c
<1>3. StartInv'
  BY <1>2, StartKept DEF ShowPlan
<1>4. /\ UNCHANGED <<files, ledger>> /\ late' = {} /\ pending'.cmd = c.cmd /\ c.cmd # "uninstall"
      /\ pending'.call = c /\ pending'.changes = PlanInstall(c)
  BY <1>2 DEF ShowPlan
<1>5. Ledger' = Ledger
  BY <1>4 DEF Ledger, ReadFile
<1>6. ASSUME NEW p \in DOMAIN files, NEW h \in DOMAIN files[p].body,
             Spared(p)', p \notin Ledger.copies
      PROVE  \E w : Watches(w, p, h)'
  <2>a. \A q \in DOMAIN files : files[q].own = "managed" => Given(q)'
    BY <1>4 DEF Given, ReadFile
  <2>b. files[p].own # "managed"
    BY <1>6, <2>a DEF Spared
  <2>c. c.cmd = "install" => \A q \in DOMAIN files : files[q].own = "managed" => ~InSkill(p, q)
    BY <1>4, <1>6, <2>a DEF Spared, GoesWithSkill
  <2>1. PICK w : IsWatchOf(w, c, p, h)
    BY <1>2, <1>6, <2>b, <2>c, WatchOfIs DEF Theirs
  <2>2. Harmless(PlanInstall(c), w)
    BY <1>2, <2>1, PlanHarmless
  <2>3. ~w.keeps => p \notin Dests \/ h \in OfTheLayouts
    BY <2>1, PlacesDiffer DEF IsWatchOf, Place, Migrates
  <2>4. Watches(w, p, h)'
    BY <1>4, <2>1, <2>2, <2>3 DEF Watches, IsWatchOf
  <2> QED BY <2>4
<1>7. PendingInv'
  BY <1>4, <1>5, <1>6 DEF PendingInv
<1> QED BY <1>3, <1>7

LEMMA PlanRemovalWatched ==
  ASSUME KInv, StartInv, PlanRemoval
  PROVE  StartInv' /\ PendingInv'
<1>1. PICK owned \in BOOLEAN :
        ShowPlan([cmd |-> "uninstall", owned |-> owned],
                 PlanUninstall([cmd |-> "uninstall", owned |-> owned]), {})
  BY DEF PlanRemoval
<1> DEFINE c == [cmd |-> "uninstall", owned |-> owned]
           goes == OnLedger("managed") \cup (IF owned THEN OnLedger("user") ELSE {})
           A == {RemoveFile(p) : p \in goes}
<1>2. /\ UNCHANGED <<files, ledger>> /\ pending'.changes = PlanUninstall(c)
      /\ pending'.cmd = "uninstall" /\ pending'.call.owned = owned /\ c.owned = owned
  BY <1>1 DEF ShowPlan
<1>3. StartInv'
  BY <1>1, StartKept DEF ShowPlan
<1>4. \A own : IsFiniteSet(OnLedger(own))
  <2>1. \A own : OnLedger(own) \in SUBSET DOMAIN files
    BY DEF OnLedger
  <2> QED BY <2>1, FS_Subset DEF KInv
<1>5. PlanUninstall(c) \in Seq(A)
  <2>1. Deletions(OnLedger("managed")) \in Seq(A) /\ (owned => Deletions(OnLedger("user")) \in Seq(A))
    BY <1>4, DeletionsFacts
  <2> HIDE DEF A
  <2>2. <<>> \in Seq(A)
    OBVIOUS
  <2> QED BY <1>2, <2>1, <2>2 DEF PlanUninstall
<1>6. \A p \in goes : p \in DOMAIN files /\ Given(p)'
  <2>1. Ledger' = Ledger
    BY <1>2 DEF Ledger, ReadFile
  <2>2. OnLedger("user")' = OnLedger("user")
    BY <1>2, <2>1 DEF OnLedger
  <2>3. \A p \in OnLedger("managed") : p \in DOMAIN files /\ Given(p)'
    BY <1>2 DEF OnLedger, Given, ReadFile
  <2>4. \A p \in OnLedger("user") : p \in DOMAIN files /\ (owned => Chosen(p)')
    BY <1>2, <2>2 DEF Chosen, OnLedger
  <2> QED BY <2>3, <2>4 DEF Given
<1>7. \A i \in 1 .. Len(PlanUninstall(c)) : PlanUninstall(c)[i].at \in goes
  <2>1. \A x \in A : x.at \in goes
    BY DEF RemoveFile
  <2> HIDE DEF A, goes
  <2> QED BY <1>5, <2>1
<1> HIDE DEF goes, c
<1>8. ASSUME NEW p \in DOMAIN files, Spared(p)', NEW x \in goes
      PROVE  p # x /\ ~InSkill(p, x)
  <2>1. x \in DOMAIN files' /\ Given(x)'
    BY <1>2, <1>6
  <2> QED BY <1>2, <1>8, <2>1 DEF Spared, GoesWithSkill
<1>9. PendingInv'
  BY <1>2, <1>7, <1>8 DEF PendingInv
<1> QED BY <1>3, <1>9

\* What a run may replace or remove it still may after an edit by hand.
LEMMA GivenStays ==
  ASSUME KInv, NEW x, UNCHANGED <<ledger, pending>>, late' = late \cup {x},
         \A p : p # x => (p \in DOMAIN files <=> p \in DOMAIN files'),
         \A p \in DOMAIN files : p # x => files'[p] = files[p]
  PROVE  \A p : Spared(p)' => Spared(p) /\ p # x
<1>1. DOMAIN Ledger'.owned = DOMAIN Ledger.owned
  BY LedgerFacts, LedgerNext DEF KInv
<1>2. ASSUME NEW p, Given(p) PROVE Given(p)'
  <2>1. CASE p = x \/ p \in late
    BY <2>1 DEF Given
  <2>2. CASE p # x /\ ReadFile(files, p).own = "managed"
    BY <2>2 DEF Given, ReadFile, NoFile
  <2>3. CASE p # x /\ Chosen(p)
    BY <1>1, <2>3 DEF Given, Chosen, OnLedger
  <2> QED BY <1>2, <2>1, <2>2, <2>3 DEF Given
<1>3. ASSUME NEW p, GoesWithSkill(p) PROVE GoesWithSkill(p)'
  <2>1. PICK q \in DOMAIN files \cup late : Given(q) /\ InSkill(p, q)
    BY <1>3 DEF GoesWithSkill
  <2>2. q \in DOMAIN files' \cup late'
    BY <2>1
  <2> QED BY <1>2, <1>3, <2>1, <2>2 DEF GoesWithSkill
<1>4. Given(x)'
  BY DEF Given
<1> QED BY <1>2, <1>3, <1>4 DEF Spared

LEMMA TouchWatched ==
  ASSUME KInv, StartInv, pending # Nobody => PendingInv, Touch
  PROVE  StartInv' /\ (pending' # Nobody => PendingInv')
<1>1. PICK t \in Touches :
        /\ t.do # "write" => t.at \in DOMAIN files
        /\ CASE t.do = "write" -> files' = Having(files, t.at, t.file)
             [] t.do = "set" -> files' = [files EXCEPT ![t.at] =
                  [own |-> @.own, body |-> Having(@.body, t.heading, t.value)]]
             [] t.do = "disown" -> files' = [files EXCEPT ![t.at] =
                  [own |-> "none", body |-> @.body]]
             [] OTHER -> files' = Without(files, {t.at})
        /\ late' = late \cup {t.at}
  BY DEF Touch
<1>2. UNCHANGED <<ledger, pending>>
  BY DEF Touch
<1>3. StartInv'
  BY StartKept DEF Touch
<1>4. /\ \A p : p # t.at => (p \in DOMAIN files <=> p \in DOMAIN files')
      /\ \A p \in DOMAIN files : p # t.at => files'[p] = files[p]
  BY <1>1 DEF Having, Without
<1>8. \A p \in DOMAIN files' : Spared(p)' =>
        Spared(p) /\ p \in DOMAIN files /\ files'[p] = files[p]
  BY <1>1, <1>2, <1>4, GivenStays
<1>5. Ledger'.copies = Ledger.copies
  <2>1. CASE ledger = NoLedger
    BY <1>2, <2>1 DEF Ledger
  <2>2. CASE ledger # NoLedger
    <3> DEFINE who == [p \in DOMAIN ledger.owned |-> p \in {PrefsDest(n) : n \in PrefsNames}
                                   \/ ReadFile(files, p).own = "user"]
               whoNext == [p \in DOMAIN ledger.owned |-> p \in {PrefsDest(n) : n \in PrefsNames}
                                   \/ ReadFile(files', p).own = "user"]
    <3>1. DOMAIN ledger = LedgerFields
      BY <2>2 DEF KInv
    <3>2. Ledger = IF ledger.line THEN [ledger EXCEPT !.owned = who] ELSE ledger
      BY <2>2 DEF Ledger
    <3>3. Ledger' = IF ledger.line THEN [ledger EXCEPT !.owned = whoNext] ELSE ledger
      BY <1>2, <2>2 DEF Ledger
    <3> HIDE DEF who, whoNext
    <3> QED BY <3>1, <3>2, <3>3 DEF LedgerFields
  <2> QED BY <2>1, <2>2
<1>6. ASSUME NEW p \in DOMAIN files', Spared(p)', NEW h, NEW w, Watches(w, p, h)
      PROVE  Watches(w, p, h)'
  BY <1>2, <1>6, <1>8 DEF Watches
<1>7. PendingInv => PendingInv'
  BY <1>2, <1>5, <1>6, <1>8 DEF PendingInv
<1> QED BY <1>2, <1>3, <1>7

\* However a run of an install ended.
LEMMA InstallRunKeepsTheirs ==
  ASSUME KInv, pending # Nobody, PendingInv, InstallRun
  PROVE  RunKeepsTheirs
<1>1. PICK n \in 0 .. Len(pending.changes), saved \in BOOLEAN :
        files' = Carry(pending.changes, n).files /\ backups' = Carry(pending.changes, n).backups
  BY DEF InstallRun
<1>2. pending.cmd # "uninstall"
  BY DEF InstallRun
<1> SUFFICES ASSUME NEW p \in DOMAIN files \ late, NEW h \in DOMAIN files[p].body,
                    Spared(p), p \notin Ledger.copies
             PROVE  LET q == NewPlace(p)
                    IN  \/ Value(ReadFile(files', q).body, h) = files[p].body[h]
                        \/ \E m \in PrefsNames : q = PrefsDest(m) /\ h \in DOMAIN AnswersFor(pending.call, m)
                        \/ files[p] \in backups' /\ (p \notin {PrefsDest(m) : m \in PrefsNames}
                                                     \/ h \in OfTheLayouts)
  BY <1>2 DEF RunKeepsTheirs, Spared
<1> DEFINE changes == pending.changes
           st == Carry(changes, n)
           q == NewPlace(p)
<1>3. PICK w : Watches(w, p, h)
  BY <1>2 DEF PendingInv
<1>4. n \in Nat /\ \A i \in 1 .. n : Tame(changes, i, w)
  BY <1>3 DEF Watches, Harmless
<1>5. Watched(w, changes, n, st)
  BY <1>3, <1>4, CarryWatched DEF Watches
<1>6. /\ w.from = p /\ w.file = files[p] /\ w.head = h /\ w.call = pending.call /\ IsWatch(w)
      /\ w.keeps \in BOOLEAN /\ (~w.keeps => p \notin Dests \/ h \in OfTheLayouts)
  BY <1>3 DEF Watches
<1>7. files' = st.files /\ backups' = st.backups
  BY <1>1
<1> HIDE DEF st, changes
<1>8. Value(files[p].body, h) = files[p].body[h]
  BY DEF Value
<1>9. q = IF p = Aside /\ p \notin DOMAIN files' THEN Consult ELSE p
  BY DEF NewPlace, Aside, Consult, PrefsNames
<1> HIDE DEF q
<1>10. ASSUME q = w.to, q \in DOMAIN files', Held(w, changes, n, st, q)
       PROVE  \/ Value(ReadFile(files', q).body, h) = files[p].body[h]
              \/ \E m \in PrefsNames : q = PrefsDest(m) /\ h \in DOMAIN AnswersFor(pending.call, m)
              \/ files[p] \in backups' /\ (p \notin Dests \/ h \in OfTheLayouts)
  <2>1. ReadFile(files', q) = st.files[q]
    BY <1>7, <1>10 DEF ReadFile
  <2>2. CASE w.keeps
    BY <1>6, <1>10, <2>1, <2>2 DEF Held, KeepsText, Answered
  <2>3. CASE ~w.keeps
    BY <1>6, <1>7, <1>8, <1>10, <2>1, <2>3 DEF Held
  <2> QED BY <2>2, <2>3
<1>11. CASE p \in DOMAIN files' /\ w.to = w.from
  BY <1>5, <1>6, <1>7, <1>9, <1>10, <1>11 DEF Watched, Dests, q
<1>12. CASE p \in DOMAIN files' /\ w.to # w.from
  <2>1. files'[p] = files[p] /\ q = p
    BY <1>5, <1>6, <1>7, <1>9, <1>12 DEF Watched
  <2>2. ReadFile(files', q) = files[p]
    BY <1>12, <2>1 DEF ReadFile
  <2> QED BY <1>8, <2>2 DEF q
<1>13. CASE p \notin DOMAIN files'
  <2>1. p = Aside /\ w.to = Consult /\ q = Consult /\ q \in DOMAIN files' /\ Held(w, changes, n, st, q)
    BY <1>5, <1>6, <1>7, <1>9, <1>13 DEF Watched, IsWatch
  <2> QED BY <1>10, <2>1 DEF Dests, q
<1> QED BY <1>11, <1>12, <1>13

\* And of an uninstall.
LEMMA UninstallRunKeepsTheirs ==
  ASSUME KInv, pending # Nobody, PendingInv, UninstallRun
  PROVE  RunKeepsTheirs
<1>1. PICK n \in 0 .. Len(pending.changes), removed \in BOOLEAN :
        files' = Carry(pending.changes, n).files
  BY DEF UninstallRun
<1> DEFINE st == Carry(pending.changes, n)
<1>2. pending.cmd = "uninstall"
  BY DEF UninstallRun
<1>3. n \in Nat /\ \A i \in 1 .. n : pending.changes[i].do = "delete" /\ i \in 1 .. Len(pending.changes)
  BY <1>2 DEF KInv
<1>4. /\ \A p \in DOMAIN st.files : st.files[p] = files[p]
      /\ \A p \in DOMAIN files :
           \/ p \in DOMAIN st.files
           \/ \E i \in 1 .. n : p = pending.changes[i].at \/ InSkill(p, pending.changes[i].at)
  BY <1>3, CarryDeletes
<1> SUFFICES ASSUME NEW p \in DOMAIN files \ late, NEW h \in DOMAIN files[p].body,
                    Spared(p)
             PROVE  Value(ReadFile(files', NewPlace(p)).body, h) = files[p].body[h]
  BY <1>2 DEF RunKeepsTheirs, Spared
<1>5. \A i \in 1 .. n : p # pending.changes[i].at /\ ~InSkill(p, pending.changes[i].at)
  BY <1>2, <1>3 DEF PendingInv
<1> HIDE DEF st
<1>6. p \in DOMAIN files' /\ files'[p] = files[p]
  BY <1>1, <1>4, <1>5 DEF st
<1>7. NewPlace(p) = p
  BY <1>6 DEF NewPlace
<1> QED BY <1>6, <1>7 DEF ReadFile, Value

(***************************************************************************)
(* What a person wrote into a file that is not the kit's survives every    *)
(* run, however it ended, in its file or in a backup, and preferences      *)
(* survive a rename and a migration (plan.rs decide_text, decide_rule,     *)
(* prefs/migrate.rs, prefs/rename.rs); unless it was signed and chosen to  *)
(* be removed, is in the folder of a skill that the run replaces or        *)
(* removes, or is a copy of a rule (apply.rs install_skill, uninstall.rs). *)
(***************************************************************************)
THEOREM KitFilesTheirWork == KitSpec => TheirWorkKept
<1>1. KitInit => TheirsInv
  <2> SUFFICES ASSUME KitInit PROVE TheirsInv
    OBVIOUS
  <2>1. start \in Starts /\ pending = Nobody
    BY DEF KitInit
  <2>2. StartInv
    BY <2>1, StartsAssumption DEF StartsAssumption, StartInv
  <2> QED BY <2>1, <2>2, KitInitHolds DEF TheirsInv
<1>2. TheirsInv /\ [KitNext]_kitVars => TheirsInv'
  <2> SUFFICES ASSUME TheirsInv, [KitNext]_kitVars PROVE TheirsInv'
    OBVIOUS
  <2>a. KInv /\ StartInv /\ (pending # Nobody => PendingInv)
    BY DEF TheirsInv
  <2>1. CASE PlanRun
    BY <2>a, <2>1, KitAssumption, PlanRunKeeps, PlanRunWatched DEF TheirsInv
  <2>2. CASE PlanRemoval
    BY <2>a, <2>2, PlanRemovalKeeps, PlanRemovalWatched DEF TheirsInv
  <2>3. CASE Touch
    BY <2>a, <2>3, TouchKeeps, TouchWatched DEF TheirsInv
  <2>4. CASE Cancel
    <3>1. pending' = Nobody /\ StartInv'
      BY <2>a, <2>4 DEF Cancel, StartInv
    <3> QED BY <2>a, <2>4, <3>1, CancelKeeps DEF TheirsInv
  <2>5. CASE InstallRun
    <3>1. pending' = Nobody /\ \E n : Spend("faults", n)
      BY <2>5 DEF InstallRun
    <3>2. StartInv'
      BY <2>a, <3>1, StartKept
    <3> QED BY <2>a, <2>5, <3>1, <3>2, InstallRunKeeps DEF TheirsInv
  <2>6. CASE UninstallRun
    <3>1. pending' = Nobody /\ \E n : Spend("faults", n)
      BY <2>6 DEF UninstallRun
    <3>2. StartInv'
      BY <2>a, <3>1, StartKept
    <3> QED BY <2>a, <2>6, <3>1, <3>2, UninstallRunKeeps DEF TheirsInv
  <2>7. CASE UNCHANGED kitVars
    BY <2>a, <2>7 DEF TheirsInv, KInv, StartInv, PendingInv, Watches, kitVars, Ledger, ReadFile,
                      Spared, Given, GoesWithSkill, Chosen, OnLedger
  <2> QED BY <2>1, <2>2, <2>3, <2>4, <2>5, <2>6, <2>7 DEF KitNext
<1>3. TheirsInv /\ [KitNext]_kitVars => [RunKeepsTheirs]_kitVars
  <2> SUFFICES ASSUME TheirsInv, KitNext, pending # Nobody, pending' = Nobody PROVE RunKeepsTheirs
    BY DEF RunKeepsTheirs
  <2>a. KInv /\ PendingInv
    BY DEF TheirsInv
  <2>1. CASE Cancel
    <3>1. files' = files
      BY <2>1 DEF Cancel
    <3>2. \A p \in DOMAIN files : NewPlace(p) = p
      BY <3>1 DEF NewPlace
    <3> QED BY <3>1, <3>2 DEF RunKeepsTheirs, ReadFile, Value
  <2>2. CASE InstallRun
    BY <2>a, <2>2, InstallRunKeepsTheirs
  <2>3. CASE UninstallRun
    BY <2>a, <2>3, UninstallRunKeepsTheirs
  <2>4. PlanRun => pending = Nobody
    BY DEF PlanRun, ShowPlan
  <2>5. PlanRemoval => pending = Nobody
    BY DEF PlanRemoval, ShowPlan
  <2>6. Touch => pending' = pending
    BY DEF Touch
  <2> QED BY <2>1, <2>2, <2>3, <2>4, <2>5, <2>6 DEF KitNext
<1> QED BY <1>1, <1>2, <1>3, PTL DEF KitSpec, TheirWorkKept
=============================================================================
