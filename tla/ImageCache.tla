----------------------------- MODULE ImageCache -----------------------------
(***************************************************************************)
(* The cache of root file systems: ImageManager of internal/vm/image.go    *)
(* and the copy CreateAndStart makes of what it returns.                   *)
(*                                                                         *)
(* EnsureRootfs holds im.mu from start to end, so calls do not overlap; a  *)
(* crash may come between any two of its steps and leaves the files behind *)
(* as they are.  A file is absent, "partial", or all of one image.         *)
(* CleanCache has no caller and is left out.                               *)
(***************************************************************************)
EXTENDS Integers

CONSTANTS
    Refs,             \* image references of new VMs
    Digests,          \* images
    Builders,         \* calls of CreateAndStart
    Candidates,       \* local names tried for a reference: it, and it:latest
    MaxPushes,        \* bound: images rebuilt or pushed under a reference
    MaxImageCrashes   \* bound: crashes of the server

ASSUME ImageAssumption ==
    /\ Candidates \in Nat \ {0} /\ MaxPushes \in Nat /\ MaxImageCrashes \in Nat
    /\ Digests \cap {"absent", "partial"} = {}

VARIABLES
    docker,     \* image of a reference in the local Docker, or "absent"
    registry,   \* image of a reference in the registry, or "absent"
    tars,       \* local-images/<name>.tar, by reference and candidate
    tmps,       \* <digest>.ext4.tmp
    ext4s,      \* <digest>.ext4
    locked,     \* im.mu
    build,      \* a call: where it is, its reference, candidate and image
    disks,      \* the VM's own copy, by call
    named,      \* history: images a reference has named
    pushes, imageCrashes

imageVars == <<docker, registry, tars, tmps, ext4s, locked, build, disks, named,
               pushes, imageCrashes>>
cacheFiles == <<tars, tmps, ext4s>>
outside == <<docker, registry, named, pushes, imageCrashes>>

NoBuild == [pc |-> "idle", ref |-> "absent", try |-> 1, img |-> "absent"]

ImageInit ==
    /\ docker \in [Refs -> Digests \cup {"absent"}]
    /\ registry \in [Refs -> Digests \cup {"absent"}]
    /\ tars = [r \in Refs |-> [i \in 1..Candidates |-> "absent"]]
    /\ tmps = [d \in Digests |-> "absent"]
    /\ ext4s = [d \in Digests |-> "absent"]
    /\ locked = FALSE
    /\ build = [b \in Builders |-> NoBuild]
    /\ disks = [b \in Builders |-> "absent"]
    /\ named = [r \in Refs |-> {docker[r], registry[r]}]
    /\ pushes = 0 /\ imageCrashes = 0

BuildAt(b, l) == build[b].pc = l
BuildGoto(b, l) == build' = [build EXCEPT ![b].pc = l]

(* EnsureRootfs returns an error: defers remove the directory and unlock.  *)
GiveUp(b) == locked' = FALSE /\ BuildGoto(b, "failed")

-----------------------------------------------------------------------------
(* EnsureRootfs waits for the lock. *)
Ensure(b, r) ==
    /\ BuildAt(b, "idle") /\ ~locked
    /\ locked' = TRUE
    /\ build' = [build EXCEPT ![b] = [NoBuild EXCEPT !.pc = "stat", !.ref = r]]
    /\ UNCHANGED <<cacheFiles, disks, outside>>

TarOf(b) == tars[build[b].ref][build[b].try]
SetTar(b, f) == tars' = [tars EXCEPT ![build[b].ref][build[b].try] = f]

(* getImage goes on to the next local candidate, then to the registry.     *)
NextCandidate(b) ==
    build' = [build EXCEPT ![b] =
                IF @.try < Candidates THEN [build[b] EXCEPT !.pc = "stat", !.try = @ + 1]
                ELSE [build[b] EXCEPT !.pc = "pull"]]

(* loadLocalDockerImage: a tar that is there is used, whatever it is; an   *)
(* empty file is made before docker save is started.                       *)
StatTar(b) ==
    /\ BuildAt(b, "stat")
    /\ IF TarOf(b) = "absent"
       THEN SetTar(b, "partial") /\ BuildGoto(b, "save")
       ELSE BuildGoto(b, "load") /\ UNCHANGED tars
    /\ UNCHANGED <<tmps, ext4s, locked, disks, outside>>

(* docker save, which fails when Docker has no such image, or for its own  *)
(* reasons; the file is then removed.                                      *)
DockerSave(b) ==
    /\ BuildAt(b, "save")
    /\ \/ /\ docker[build[b].ref] # "absent"
          /\ SetTar(b, docker[build[b].ref])
          /\ BuildGoto(b, "load")
       \/ SetTar(b, "absent") /\ NextCandidate(b)
    /\ UNCHANGED <<tmps, ext4s, locked, disks, outside>>

(* tarball.ImageFromPath refuses a file that is not whole.                 *)
LoadTar(b) ==
    /\ BuildAt(b, "load")
    /\ IF TarOf(b) = "partial" THEN NextCandidate(b)
       ELSE build' = [build EXCEPT ![b].pc = "lookup", ![b].img = TarOf(b)]
    /\ UNCHANGED <<cacheFiles, locked, disks, outside>>

Pull(b) ==
    /\ BuildAt(b, "pull")
    /\ \/ /\ registry[build[b].ref] # "absent"
          /\ build' = [build EXCEPT ![b].pc = "lookup", ![b].img = registry[build[b].ref]]
          /\ UNCHANGED locked
       \/ GiveUp(b)
    /\ UNCHANGED <<cacheFiles, disks, outside>>

(* The digest is the cache's key; a hit returns the path.  Reading the     *)
(* image's configuration may fail in either case.                          *)
LookUp(b) ==
    /\ BuildAt(b, "lookup")
    /\ \/ IF ext4s[build[b].img] # "absent"
          THEN locked' = FALSE /\ BuildGoto(b, "copy")
          ELSE BuildGoto(b, "extract") /\ UNCHANGED locked
       \/ GiveUp(b)
    /\ UNCHANGED <<cacheFiles, disks, outside>>

(* The layers go to a directory of the call's own, outside the cache.      *)
ExtractRootfs(b) ==
    /\ BuildAt(b, "extract")
    /\ \/ BuildGoto(b, "create") /\ UNCHANGED locked
       \/ GiveUp(b)
    /\ UNCHANGED <<cacheFiles, disks, outside>>

MutantCreateExt4(b) ==
    /\ BuildAt(b, "create")
    /\ ext4s' = [ext4s EXCEPT ![build[b].img] = "partial"]
    /\ tmps' = [tmps EXCEPT ![build[b].img] = "partial"]
    /\ BuildGoto(b, "mkfs")
    /\ UNCHANGED <<tars, locked, disks, outside>>

(* createExt4 makes the sparse file, over whatever a crash has left.       *)
CreateExt4(b) ==
    /\ BuildAt(b, "create")
    /\ tmps' = [tmps EXCEPT ![build[b].img] = "partial"]
    /\ BuildGoto(b, "mkfs")
    /\ UNCHANGED <<tars, ext4s, locked, disks, outside>>

(* mkfs.ext4 and resize2fs, whose failure is only logged.                  *)
Mkfs(b) ==
    /\ BuildAt(b, "mkfs")
    /\ \/ /\ tmps' = [tmps EXCEPT ![build[b].img] = build[b].img]
          /\ BuildGoto(b, "rename")
          /\ UNCHANGED locked
       \/ /\ tmps' = [tmps EXCEPT ![build[b].img] = "absent"]
          /\ GiveUp(b)
    /\ UNCHANGED <<tars, ext4s, disks, outside>>

RenameExt4(b) ==
    LET d == build[b].img IN
    /\ BuildAt(b, "rename")
    /\ tmps' = [tmps EXCEPT ![d] = "absent"]
    /\ \/ ext4s' = [ext4s EXCEPT ![d] = tmps[d]] /\ locked' = FALSE /\ BuildGoto(b, "copy")
       \/ UNCHANGED ext4s /\ GiveUp(b)
    /\ UNCHANGED <<tars, disks, outside>>

(* CreateAndStart copies the file after the lock is given back.            *)
CopyFile(b) ==
    /\ BuildAt(b, "copy")
    /\ \/ disks' = [disks EXCEPT ![b] = ext4s[build[b].img]] /\ BuildGoto(b, "done")
       \/ disks' = [disks EXCEPT ![b] = "partial"] /\ BuildGoto(b, "failed")
    /\ UNCHANGED <<cacheFiles, locked, outside>>

-----------------------------------------------------------------------------
(* Someone builds an image in Docker or pushes one to the registry.        *)
PushImage(r, d) ==
    /\ pushes < MaxPushes
    /\ pushes' = pushes + 1
    /\ \/ docker' = [docker EXCEPT ![r] = d] /\ UNCHANGED registry
       \/ registry' = [registry EXCEPT ![r] = d] /\ UNCHANGED docker
    /\ named' = [named EXCEPT ![r] = @ \cup {d}]
    /\ UNCHANGED <<cacheFiles, locked, build, disks, imageCrashes>>

(* The files stay, finished or not, and nothing looks at them on a start.  *)
CrashImages ==
    /\ imageCrashes < MaxImageCrashes
    /\ imageCrashes' = imageCrashes + 1
    /\ locked' = FALSE
    /\ build' = [b \in Builders |->
                   IF build[b].pc \in {"idle", "done"} THEN build[b]
                   ELSE [build[b] EXCEPT !.pc = "failed"]]
    /\ UNCHANGED <<cacheFiles, disks, docker, registry, named, pushes>>

ImageNext ==
    \/ \E b \in Builders :
          \/ \E r \in Refs : Ensure(b, r)
          \/ StatTar(b) \/ DockerSave(b) \/ LoadTar(b) \/ Pull(b) \/ LookUp(b)
          \/ ExtractRootfs(b) \/ CreateExt4(b) \/ Mkfs(b) \/ RenameExt4(b) \/ CopyFile(b)
    \/ \E r \in Refs, d \in Digests : PushImage(r, d)
    \/ CrashImages

ImageSpec == ImageInit /\ [][ImageNext]_imageVars

-----------------------------------------------------------------------------
(* Whatever a crash, a failed command or another call has left in the      *)
(* cache directory, a file under a digest is all of that image, and a VM   *)
(* gets all of one image that its own reference has named (EnsureRootfs).  *)
DisksAreWhole ==
    /\ \A d \in Digests : ext4s[d] \in {"absent", d}
    /\ \A b \in Builders : BuildAt(b, "done") => disks[b] \in named[build[b].ref] \ {"absent"}
=============================================================================
