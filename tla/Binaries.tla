------------------------------ MODULE Binaries ------------------------------
(***************************************************************************)
(* How the installer fetches the binaries of a request and puts them into  *)
(* the binary folder (setup/src/binaries.rs): which release they come      *)
(* from, what is verified, and each file operation of a replacement.       *)
(* Setup has the installation as one step; this module has its inside.     *)
(*                                                                         *)
(* The content of a file is the release it was cut from.  The release site *)
(* is not under the installer's control: "latest" names another release    *)
(* once one is published, between any two downloads.                       *)
(***************************************************************************)
EXTENDS Naturals, Sequences, FiniteSets

CONSTANTS
    GuardName,      \* the guard, which a release may lack
    Sites,          \* the release sites at hand
    Requests,       \* what the person may ask for: [mode, names, version]
    Unset,          \* no value
    MaxInstalls,    \* bound: installations
    MaxFaults       \* bound: faults of the network and the file system, and kills

\* A request names each binary once.
BinNames == UNION {{req.names[i] : i \in DOMAIN req.names} : req \in Requests}
ASSUME RequestsAssumption ==
  \A req \in Requests :
    /\ req.mode \in {"prebuilt", "build"}
    /\ req.names \in Seq(BinNames)
    /\ \A i, k \in 1 .. Len(req.names) : req.names[i] = req.names[k] => i = k

(***************************************************************************)
(* A site is [releases, first, then]: what each release has, and the       *)
(* release that is the latest first and after a publication.  A release is *)
(* [assets, sums]: the archives, whether each holds its binary, and the    *)
(* entries of checksums.txt, Unset without one; an entry is right or not.  *)
(***************************************************************************)
\* No release is called like the mark of a file that was written in part.
ASSUME SitesAssumption ==
  \A site \in Sites : "part" \notin DOMAIN site.releases \cup {site.first, site.then}

VARIABLES
    web,        \* the release site
    newest,     \* the release that "latest" names
    folder,     \* the binary folder: the content of each binary
    strays,     \* temporary and parked files: [was, name, by, content]
    job,        \* the installation that runs, Unset without one
    ended,      \* how the last installation ended, with what it found; Unset before
    installs, mishaps

binVars == <<web, newest, folder, strays, job, ended, installs, mishaps>>

-----------------------------------------------------------------------------
(***************************************************************************)
(* Downloads.                                                              *)
(***************************************************************************)
\* The release behind a base address, Unset when the version was never released.
ReleaseAt(base) == IF base = "latest" THEN newest
                   ELSE IF base \in DOMAIN web.releases THEN base ELSE Unset
SumsAt(base)    == LET r == ReleaseAt(base) IN IF r = Unset THEN Unset ELSE web.releases[r].sums
HasAsset(base, n) == ReleaseAt(base) # Unset /\ n \in DOMAIN web.releases[ReleaseAt(base)].assets

\* The checksums a run read are those of the release the base led to then.
SumsRead(base) == IF SumsAt(base) = Unset THEN Unset ELSE [of |-> ReleaseAt(base), entries |-> SumsAt(base)]

\* The asset is the one checksums.txt has the entry of; without an entry it is taken as it is.
Verified_Servers(n, r, sums) ==
  sums # Unset /\ n \in DOMAIN sums.entries /\ n # GuardName => sums.of = r /\ sums.entries[n] = "right"
Verified(n, r, sums) ==
  sums # Unset /\ n \in DOMAIN sums.entries => sums.of = r /\ sums.entries[n] = "right"

Fresh(req, at) ==
  [req |-> req, at |-> at, base |-> req.version, sums |-> Unset, probed |-> Unset,
   got |-> <<>>, skipped |-> {}, step |-> 1, before |-> folder, stuck |-> FALSE]

End(how, j) == ended' = [how |-> how, job |-> j] /\ job' = Unset

\* install: skip ends at once, build needs every package built and read.
BeginInstall(req) ==
  /\ job = Unset /\ installs < MaxInstalls
  /\ installs' = installs + 1
  /\ job' = Fresh(req, CASE req.mode = "prebuilt" -> IF req.version = "latest" THEN "latest-sums" ELSE "sums"
                         [] req.mode = "build" -> "build")
  /\ ended' = Unset
  /\ UNCHANGED <<web, newest, folder, strays, mishaps>>

\* resolve: checksums.txt of the version; else its first asset; else the latest release.
ResolveSums ==
  /\ job # Unset /\ job.at = "sums"
  /\ job' = IF SumsRead(job.base) = Unset THEN [job EXCEPT !.at = "probe"]
            ELSE [job EXCEPT !.at = "fetch", !.sums = SumsRead(job.base)]
  /\ UNCHANGED <<web, newest, folder, strays, ended, installs, mishaps>>
ResolveProbe ==
  /\ job # Unset /\ job.at = "probe"
  /\ job' = IF HasAsset(job.base, job.req.names[1])
            THEN [job EXCEPT !.at = "fetch", !.probed = ReleaseAt(job.base)]
            ELSE [job EXCEPT !.at = "latest-sums"]
  /\ UNCHANGED <<web, newest, folder, strays, ended, installs, mishaps>>
ResolveLatest ==
  /\ job # Unset /\ job.at = "latest-sums"
  /\ job' = [job EXCEPT !.at = "fetch", !.base = "latest", !.sums = SumsRead("latest")]
  /\ UNCHANGED <<web, newest, folder, strays, ended, installs, mishaps>>

\* download_all, one binary: the probe's body or the asset; the guard may be absent when
\* checksums.txt does not name it; a wrong checksum or an archive without the binary ends it.
DownloadOne ==
  /\ job # Unset /\ job.at = "fetch" /\ job.step <= Len(job.req.names)
  /\ LET n == job.req.names[job.step]
         cached == job.probed # Unset /\ job.step = 1
         there == cached \/ HasAsset(job.base, n)
         r == IF cached THEN job.probed ELSE ReleaseAt(job.base)
         optional == n = GuardName /\ ~(job.sums # Unset /\ n \in DOMAIN job.sums.entries)
     IN \/ /\ ~there /\ optional
           /\ job' = [job EXCEPT !.step = @ + 1, !.skipped = @ \cup {n}]
           /\ UNCHANGED ended
        \/ /\ there /\ Verified(n, r, job.sums) /\ web.releases[r].assets[n] = "whole"
           /\ job' = [job EXCEPT !.step = @ + 1, !.got = Append(@, <<n, r>>)]
           /\ UNCHANGED ended
        \/ /\ there => ~(Verified(n, r, job.sums) /\ web.releases[r].assets[n] = "whole")
           /\ ~there => ~optional
           /\ End("fetching", job)
  /\ UNCHANGED <<web, newest, folder, strays, installs, mishaps>>
Downloaded ==
  /\ job # Unset /\ job.at = "fetch" /\ job.step > Len(job.req.names)
  /\ job' = [job EXCEPT !.at = "write", !.step = 1]
  /\ UNCHANGED <<web, newest, folder, strays, ended, installs, mishaps>>

\* run_build: cargo for the servers, cargo for the guard, then every binary is read.
BuildAll ==
  /\ job # Unset /\ job.at = "build"
  /\ job' = [job EXCEPT !.at = "write",
                        !.got = [i \in DOMAIN job.req.names |-> <<job.req.names[i], "checkout">>]]
  /\ UNCHANGED <<web, newest, folder, strays, ended, installs, mishaps>>

Mishap == mishaps < MaxFaults /\ mishaps' = mishaps + 1

\* The network or cargo fails before any file was touched.
FetchFails ==
  /\ job # Unset /\ job.at \in {"sums", "probe", "latest-sums", "fetch", "build"}
  /\ Mishap /\ End("fetching", job)
  /\ UNCHANGED <<web, newest, folder, strays, installs>>

-----------------------------------------------------------------------------
(***************************************************************************)
(* replace_binary, one file operation after the other.  A temporary and a  *)
(* parked file carry the process id, here the number of the installation.  *)
(***************************************************************************)
Name      == job.got[job.step][1]
Content   == job.got[job.step][2]
Stray(was, content) == [was |-> was, name |-> Name, by |-> installs, content |-> content]
OwnStrays(was) == {s \in strays : s.was = was /\ s.name = Name /\ s.by = installs}
With(n, content) == [m \in DOMAIN folder \cup {n} |-> IF m = n THEN content ELSE folder[m]]
FolderWithout(n) == [m \in DOMAIN folder \ {n} |-> folder[m]]
Replacing(at) == job # Unset /\ job.at = at /\ job.step <= Len(job.got)

\* The temporary file is written, then made executable; a failure leaves it behind.
WriteTemporary ==
  /\ Replacing("write")
  /\ \/ /\ strays' = strays \cup {Stray("temporary", Content)}
        /\ job' = [job EXCEPT !.at = "rename"]
        /\ UNCHANGED <<ended, mishaps>>
     \/ /\ Mishap
        /\ \E c \in {Content, "part"} : strays' = strays \cup {Stray("temporary", c)}
        /\ End("replacing", job)
  /\ UNCHANGED <<web, newest, folder, installs>>

NextOne == [job EXCEPT !.at = "write", !.step = @ + 1]

RenameOver ==
  /\ Replacing("rename")
  /\ \/ /\ folder' = With(Name, Content) /\ strays' = strays \ OwnStrays("temporary")
        /\ job' = NextOne
        /\ UNCHANGED mishaps
     \/ /\ Mishap
        /\ job' = [job EXCEPT !.at = "park"]
        /\ UNCHANGED <<folder, strays>>
  /\ UNCHANGED <<web, newest, ended, installs>>

\* The file in the way is renamed aside, where that works.
ParkOld ==
  /\ Replacing("park")
  /\ \/ /\ Name \in DOMAIN folder
        /\ strays' = strays \cup {Stray("parked", folder[Name])} /\ folder' = FolderWithout(Name)
        /\ job' = [job EXCEPT !.at = "rename-again"]
        /\ UNCHANGED mishaps
     \/ /\ Name \in DOMAIN folder => Mishap
        /\ Name \notin DOMAIN folder => UNCHANGED mishaps
        /\ job' = [job EXCEPT !.at = "clean"]
        /\ UNCHANGED <<folder, strays>>
  /\ UNCHANGED <<web, newest, ended, installs>>

\* A parked file that cannot be removed stays: a process still runs it.
RenameAgain ==
  /\ Replacing("rename-again")
  /\ \/ /\ folder' = With(Name, Content)
        /\ \E gone \in {{}, OwnStrays("parked")} : strays' = strays \ (OwnStrays("temporary") \cup gone)
        /\ job' = NextOne
        /\ UNCHANGED mishaps
     \/ /\ Mishap
        /\ job' = [job EXCEPT !.at = "put-back"]
        /\ UNCHANGED <<folder, strays>>
  /\ UNCHANGED <<web, newest, ended, installs>>

PutBack_Not ==
  /\ Replacing("put-back")
  /\ job' = [job EXCEPT !.at = "clean"]
  /\ UNCHANGED <<web, newest, folder, strays, ended, installs, mishaps>>
PutBack ==
  /\ Replacing("put-back")
  /\ \/ \E s \in OwnStrays("parked") :
          /\ folder' = With(Name, s.content) /\ strays' = strays \ {s}
          /\ job' = [job EXCEPT !.at = "clean"]
          /\ UNCHANGED mishaps
     \/ /\ Mishap
        /\ job' = [job EXCEPT !.at = "clean", !.stuck = TRUE]
        /\ UNCHANGED <<folder, strays>>
  /\ UNCHANGED <<web, newest, ended, installs>>

CleanUp ==
  /\ Replacing("clean")
  /\ \/ strays' = strays \ OwnStrays("temporary") /\ UNCHANGED mishaps
     \/ Mishap /\ UNCHANGED strays
  /\ End("replacing", job)
  /\ UNCHANGED <<web, newest, folder, installs>>

Complete ==
  /\ job # Unset /\ job.at = "write" /\ job.step > Len(job.got)
  /\ End("installed", job)
  /\ UNCHANGED <<web, newest, folder, strays, installs, mishaps>>

-----------------------------------------------------------------------------
\* The installer is killed; a file that was being written is there in part.
Killed ==
  /\ job # Unset /\ Mishap
  /\ \/ UNCHANGED strays
     \/ Replacing("write") /\ strays' = strays \cup {Stray("temporary", "part")}
  /\ End("killed", job)
  /\ UNCHANGED <<web, newest, folder, installs>>

\* A new release becomes the latest.
Publish ==
  /\ newest = web.first /\ web.then # Unset /\ job # Unset
  /\ newest' = web.then
  /\ UNCHANGED <<web, folder, strays, job, ended, installs, mishaps>>

BinInit ==
  /\ web \in Sites /\ newest = web.first
  /\ folder = <<>> /\ strays = {} /\ job = Unset /\ ended = Unset
  /\ installs = 0 /\ mishaps = 0

BinNext ==
  \/ \E req \in Requests : BeginInstall(req)
  \/ ResolveSums \/ ResolveProbe \/ ResolveLatest
  \/ DownloadOne \/ Downloaded \/ BuildAll \/ FetchFails
  \/ WriteTemporary \/ RenameOver \/ ParkOld \/ RenameAgain \/ PutBack \/ CleanUp \/ Complete
  \/ Killed \/ Publish

BinSpec == BinInit /\ [][BinNext]_binVars

-----------------------------------------------------------------------------
(***************************************************************************)
(* What is under a binary's name is the whole binary of a release or the   *)
(* checkout, at every moment.  An installation that fails to fetch leaves  *)
(* the folder as it was (its report: "no binary was replaced"), and one    *)
(* that fails to replace leaves every binary in place, the old or the new, *)
(* unless the old one could not be put back either.                        *)
(***************************************************************************)
Stands(n) == n \in DOMAIN folder
Parked(n) == \E s \in strays : s.was = "parked" /\ s.name = n /\ s.by = installs
BinariesStand ==
  /\ \A n \in DOMAIN folder : folder[n] # "part"
  /\ ended # Unset =>
       /\ ended.how = "fetching" => folder = ended.job.before
       /\ ended.how \in {"replacing", "killed"} =>
            \A n \in DOMAIN ended.job.before :
              Stands(n) \/ (Parked(n) /\ (ended.how = "killed" \/ ended.job.stuck))
       /\ ended.how = "installed" =>
            \A n \in {ended.job.req.names[i] : i \in DOMAIN ended.job.req.names} \ ended.job.skipped : Stands(n)

(***************************************************************************)
(* Binaries installed together are of one release when its checksums.txt   *)
(* names them all, although a new release may be published between two     *)
(* downloads (download_all).                                               *)
(***************************************************************************)
OneRelease ==
  ended # Unset /\ ended.how = "installed" /\ ended.job.sums # Unset =>
    \A i \in DOMAIN ended.job.got :
      LET g == ended.job.got[i]
      IN g[1] \in DOMAIN ended.job.sums.entries => g[2] = ended.job.sums.of /\ folder[g[1]] = g[2]
=============================================================================
