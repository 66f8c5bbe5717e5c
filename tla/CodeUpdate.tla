----------------------------- MODULE CodeUpdate -----------------------------
(***************************************************************************)
(* The checks of a code update (lib/code_update_utils.py): a caller polls  *)
(* the BMC, read by read, while the BMC unpacks and activates images, drops *)
(* the connection and is asked to delete images.  Every read and every     *)
(* command is a step of its own; between two of them the BMC may change.   *)
(***************************************************************************)
EXTENDS Naturals, FiniteSets, Sequences, SequencesExt

CONSTANTS
  Images,            \* image ids
  WaitTries, ReadFailThreshold,      \* 60 and 3 in the code
  CheckTries, RestFailLimit,         \* timeout * 2 and 6
  PathTries,                         \* 10
  MaxBmcChanges      \* bound: changes on the BMC

ASSUME UpdateAssumption ==
  /\ IsFiniteSet(Images)
  /\ {WaitTries, ReadFailThreshold, CheckTries, RestFailLimit, PathTries, MaxBmcChanges} \subseteq Nat

VARIABLES
  images,      \* id -> unpacked, object, version, purpose, activation, priority
  check,       \* the call: name, at, image or version, counters, result
  changes,
  shown,       \* history: the values the reads of this call could have shown: id -> activations
  streak,      \* history: failed reads since the last good one
  steady       \* history: the BMC has changed nothing since the call began

updateVars == <<images, check, changes, shown, streak, steady>>

Purposes == {"BMC", "Host"}
Activations == {"NotReady", "Ready", "Active", "Invalid"}

\* An image of version v and purpose p that was unpacked, but is no object yet.
Unpacked(v, p) == [unpacked |-> TRUE, object |-> FALSE, version |-> v, purpose |-> p,
                   activation |-> "NotReady", priority |-> 0]

Gone      == [Unpacked(1, "Host") EXCEPT !.unpacked = FALSE]
Installed == [Unpacked(1, "Host") EXCEPT !.object = TRUE, !.activation = "Active"]

Idle == [name |-> "none", at |-> "idle", image |-> "", version |-> 0, initial |-> "",
         list |-> <<>>, rounds |-> 0, tries |-> 0, errors |-> 0, taken |-> {}, result |-> "none"]

\* The id of an image is that of its version ("version_id"): an id never
\* stands for another version.
UpdateInit ==
  /\ \E version \in [Images -> 1..2] :
       images = [i \in Images |-> [(IF i = (CHOOSE j \in Images : TRUE) THEN Installed ELSE Gone)
                                   EXCEPT !.version = version[i]]]
  /\ check = Idle /\ changes = 0 /\ streak = 0 /\ steady = TRUE
  /\ shown = [i \in Images |-> {}]

CheckAt(at) == check' = [check EXCEPT !.at = at]
Result(r) == check' = [check EXCEPT !.at = "done", !.result = r]
\* What a call sees of the images, from its beginning on.
Shows == [i \in Images |-> {images[i].activation}]

Begin(c) ==
  /\ check.at = "idle"
  /\ check' = c /\ streak' = 0 /\ steady' = TRUE /\ shown' = Shows /\ UNCHANGED <<images, changes>>

\* A read that fails, and one that does not.
ReadFails == streak' = streak + 1
ReadWorks == streak' = 0
readOnly == <<images, changes, shown, steady>>

-----------------------------------------------------------------------------
(* wait_for_activation_state_change *)

wait_for_activation_state_change ==
  \E i \in Images, a \in Activations :
    Begin([Idle EXCEPT !.name = "wait", !.at = "wait", !.image = i, !.initial = a])

WaitErrors == 0

\* Mutant: an image without an object is read like one that has changed.
Bug_Readable(i) == TRUE

Readable(i) == images[i].object

Tried(n) == n + 1

ChangedFrom(initial, i) == ~images[i].object \/ images[i].activation # initial
WaitRead ==
  /\ check.name = "wait" /\ check.at = "wait" /\ check.tries < WaitTries
  /\ \/ /\ ReadFails                   \* no connection, or no object
        /\ IF check.errors + 1 >= ReadFailThreshold THEN Result("read_errors")
           ELSE check' = [check EXCEPT !.errors = @ + 1]
     \/ /\ Readable(check.image) /\ ReadWorks
        /\ IF ChangedFrom(check.initial, check.image) THEN Result("changed")
           ELSE check' = [check EXCEPT !.errors = WaitErrors, !.tries = Tried(@)]
  /\ UNCHANGED readOnly

StateWaitTimesOut ==
  /\ check.name = "wait" /\ check.at = "wait" /\ check.tries = WaitTries
  /\ Result("timed_out") /\ UNCHANGED <<readOnly, streak>>

-----------------------------------------------------------------------------
(* verify_image_upload, with get_image_path and get_image_purpose *)

\* "ls -d" of the upload directory: once, before the tries.
verify_image_upload ==
  \E v \in 1..2 : Begin([Idle EXCEPT !.name = "upload", !.at = "path", !.version = v,
                                     !.list = SetToSeq({i \in Images : images[i].unpacked})])

\* get_image_version of a MANIFEST that is gone gives ""
SameVersion(i) == images[i].unpacked /\ images[i].version = check.version

\* The first of PathTries rounds that finds the version; without one it raises.
get_image_path ==
  /\ check.name = "upload" /\ check.at = "path"
  /\ LET k == check.tries + 1 IN
     \/ /\ k <= Len(check.list) /\ SameVersion(check.list[k])
        /\ check' = [check EXCEPT !.at = "purpose", !.image = check.list[k], !.tries = 0]
     \/ /\ k <= Len(check.list) /\ ~SameVersion(check.list[k])
        /\ check' = [check EXCEPT !.tries = k]
     \/ /\ k > Len(check.list) /\ check.rounds + 1 < PathTries
        /\ check' = [check EXCEPT !.rounds = @ + 1, !.tries = 0]
     \/ k > Len(check.list) /\ check.rounds + 1 = PathTries /\ Result("raised")
  /\ UNCHANGED <<readOnly, streak>>

\* "Open Connection And Log In" and "Initialize OpenBMC" may fail and raise.
get_image_purpose ==
  /\ check.name = "upload" /\ check.at = "purpose"
  /\ \/ images[check.image].unpacked /\ images[check.image].purpose \in Purposes /\ CheckAt("poll")
     \/ ~(images[check.image].unpacked /\ images[check.image].purpose \in Purposes) /\ Result("no")
     \/ Result("raised")
  /\ UNCHANGED <<readOnly, streak>>

\* A failed read takes one of the CheckTries, too.
UploadPoll ==
  /\ check.name = "upload" /\ check.at = "poll" /\ check.tries < CheckTries
  /\ \/ /\ ReadFails
        /\ IF check.errors + 1 >= RestFailLimit THEN Result("no")
           ELSE check' = [check EXCEPT !.errors = @ + 1, !.tries = @ + 1] \/ Result("raised")
     \/ /\ images[check.image].object /\ ReadWorks
        /\ IF images[check.image].activation \in {"Ready", "Invalid", "Active"} THEN Result("yes")
           ELSE check' = [check EXCEPT !.errors = 0, !.tries = @ + 1]
  /\ UNCHANGED readOnly

UploadTimesOut ==
  /\ check.name = "upload" /\ check.at = "poll" /\ check.tries = CheckTries
  /\ Result("no") /\ UNCHANGED <<readOnly, streak>>

-----------------------------------------------------------------------------
(* verify_image_not_in_bmc_uploads_dir: all CheckTries are used up *)

verify_image_not_in_bmc_uploads_dir ==
  \E v \in 1..2 : Begin([Idle EXCEPT !.name = "absent", !.at = "absent", !.version = v])

\* The first image found is removed, and the test fails.
AbsentLooks ==
  LET found == {i \in Images : images[i].unpacked /\ images[i].version = check.version} IN
  /\ check.name = "absent" /\ check.at = "absent" /\ UNCHANGED <<shown, steady, streak, changes>>
  /\ \/ check.tries = CheckTries /\ Result("absent") /\ UNCHANGED images
     \/ /\ check.tries < CheckTries /\ found = {}
        /\ check' = [check EXCEPT !.tries = @ + 1] /\ UNCHANGED images
     \/ /\ check.tries < CheckTries /\ Result("found")
        /\ \E i \in found : images' = [images EXCEPT ![i].unpacked = FALSE]

-----------------------------------------------------------------------------
(* verify_no_duplicate_image_priorities: an image after the other *)

\* The objects of a purpose, in some order.
ObjectsOf(p) == SetToSeq({i \in Images : images[i].object /\ images[i].purpose = p})

verify_no_duplicate_image_priorities ==
  \E p \in Purposes :
    Begin([Idle EXCEPT !.name = "priorities", !.at = "priorities", !.list = ObjectsOf(p)])

PriorityTaken(i) == images[i].priority \in check.taken

PriorityRead ==
  LET k == check.tries + 1 i == check.list[k] IN
  /\ check.name = "priorities" /\ check.at = "priorities"
  /\ \/ k > Len(check.list) /\ Result("distinct")
     \/ k <= Len(check.list) /\ ~images[i].object /\ Result("raised")
     \/ k <= Len(check.list) /\ images[i].object /\
          IF images[i].activation # "Active" THEN check' = [check EXCEPT !.tries = k]
          ELSE IF PriorityTaken(i) THEN Result("duplicates")
          ELSE check' = [check EXCEPT !.tries = k, !.taken = @ \cup {images[i].priority}]
  /\ UNCHANGED <<readOnly, streak>>

-----------------------------------------------------------------------------
(* delete_all_pnor_images: those of the list, until one cannot be deleted *)

delete_all_pnor_images ==
  Begin([Idle EXCEPT !.name = "delete", !.at = "delete", !.list = ObjectsOf("Host")])

DeleteNext ==
  LET k == check.tries + 1 i == check.list[k] IN
  /\ check.name = "delete" /\ check.at = "delete" /\ UNCHANGED <<shown, steady, streak, changes>>
  /\ \/ k > Len(check.list) /\ Result("deleted") /\ UNCHANGED images
     \/ k <= Len(check.list) /\ Result("raised") /\ UNCHANGED images
     \/ /\ k <= Len(check.list) /\ check' = [check EXCEPT !.tries = k]
        /\ images' = [images EXCEPT ![i] = [@ EXCEPT !.object = FALSE, !.unpacked = FALSE,
                                                   !.activation = "NotReady"]]

-----------------------------------------------------------------------------
(* The BMC *)

BmcUpdates ==
  /\ changes < MaxBmcChanges /\ changes' = changes + 1
  /\ \E i \in Images :
       \/ /\ ~images[i].unpacked /\ ~images[i].object
          /\ \E p \in Purposes \cup {"Other"} :
               images' = [images EXCEPT ![i] = Unpacked(images[i].version, p)]
       \/ images[i].unpacked /\ ~images[i].object /\ images' = [images EXCEPT ![i].object = TRUE]
       \/ /\ images[i].object
          /\ \E a \in Activations \ {images[i].activation}, n \in 0..1 :
               /\ a # "Active" => n = 0
               /\ images' = [images EXCEPT ![i].activation = a, ![i].priority = n]
       \/ images[i].unpacked /\ images' = [images EXCEPT ![i].unpacked = FALSE]
  /\ shown' = [i \in Images |-> shown[i] \cup {images'[i].activation}]
  /\ steady' = FALSE /\ UNCHANGED <<check, streak>>

CheckBegins ==
  \/ wait_for_activation_state_change
  \/ verify_image_upload \/ verify_image_not_in_bmc_uploads_dir
  \/ verify_no_duplicate_image_priorities \/ delete_all_pnor_images

CheckStep ==
  \/ WaitRead \/ StateWaitTimesOut
  \/ get_image_path \/ get_image_purpose \/ UploadPoll \/ UploadTimesOut \/ AbsentLooks
  \/ PriorityRead \/ DeleteNext

UpdateNext == CheckBegins \/ CheckStep \/ BmcUpdates
\* The tries of a check are loops of the caller's own.
UpdateFairness == WF_updateVars(CheckStep)
UpdateSpec == UpdateInit /\ [][UpdateNext]_updateVars /\ UpdateFairness

-----------------------------------------------------------------------------
(* Properties *)

CheckReturned(name, r) == check.at = "done" /\ check.name = name /\ check.result = r

\* wait_for_activation_state_change returns only if, since it was called, the
\* image really had another activation than the one it was to leave: reads
\* that fail, or an image that is gone, are never taken for the change.
ChangeSeen ==
  CheckReturned("wait", "changed") => \E a \in shown[check.image] : a # check.initial

\* It gives up for read errors only after so many failed reads in a row, the
\* good reads in between notwithstanding.
ErrorsInARow == CheckReturned("wait", "read_errors") => streak >= ReadFailThreshold

\* verify_image_upload answers yes only for an image with the version that was
\* asked for, and after the BMC had given it one of the three states.
UploadRight ==
  CheckReturned("upload", "yes") =>
    /\ images[check.image].version = check.version
    /\ shown[check.image] \cap {"Ready", "Invalid", "Active"} # {}

\* As long as the BMC does not change its images, the check of the priorities
\* tells exactly whether two active images of a purpose have the same one, and
\* delete_all_pnor_images leaves none.
ImagesAsTold ==
  steady =>
    LET active == {k \in DOMAIN check.list : images[check.list[k]].activation = "Active"}
        same == \E j, k \in active :
                  j < k /\ images[check.list[j]].priority = images[check.list[k]].priority IN
    /\ CheckReturned("priorities", "distinct") => ~same
    /\ CheckReturned("priorities", "duplicates") => same
    /\ CheckReturned("delete", "deleted") =>
         \A i \in Images : ~(images[i].object /\ images[i].purpose = "Host")

\* Every call ends, however the reads fail and the BMC changes.
ChecksEnd == (check.at # "idle") ~> (check.at = "done")

\* What a check tells its caller was so on the BMC while it ran, although the
\* BMC changes between its reads and reads fail.
AnswersRight == ChangeSeen /\ ErrorsInARow /\ UploadRight /\ ImagesAsTold

=============================================================================
