----------------------------- MODULE LibraryItem ----------------------------
(***************************************************************************)
(* Library items: create_library_item, upload_library_file with its three  *)
(* branches, the push to Harbor (harbor_push_activity, llm_push_activity)  *)
(* and deletion (delete_library_item, LibraryDeleteWorkflow).              *)
(*                                                                         *)
(* The request handlers run on uvicorn's event loop and await the file,    *)
(* the storage and Temporal; the activities are threads of three workers.  *)
(* None of them locks the row.  A write to a row that is gone raises       *)
(* (StaleDataError), an activity's own update is skipped.                  *)
(***************************************************************************)
EXTENDS Naturals, FiniteSets

CONSTANTS
    Item,        \* ids of rows of library
    ItemTypes,   \* types each may be created with: "container", "llm" (model or
                 \* template) or "general" (all others)
    File,        \* names of files on the storage
    FileOf,      \* the one of each item, by its type and file_name
    Archive,     \* what is uploaded for each item
    Image,       \* references host/project/owner/name:tag
    Repo,        \* the repository of each, the part before the tag
    Refs,        \* those an item may be pushed as, by name, version, metadata
    Put,         \* uploads, PUT /{item_id}/file
    ItemsOf,     \* items each may be for
    Removal,     \* requests to delete
    Victim,      \* the item of each
    Attempts,    \* bound: attempts of the delete activity (5 in the code)
    ItemFaults,  \* what may go wrong around the program
    MaxMishaps,  \* bound: how often something does
    NoItem, NoImage

AllItemFaults == {"upload_failed", "start_failed", "start_unconfirmed",
                  "push_failed", "push_unconfirmed", "update_failed",
                  "cleanup_failed", "worker_died", "delete_failed"}

ASSUME LibraryItemAssumption ==
    /\ ItemTypes \in [Item -> SUBSET {"container", "llm", "general"}]
    /\ FileOf \in [Item -> File]
    /\ Refs \in [Item -> SUBSET Image]
    /\ DOMAIN Archive = Item
    /\ DOMAIN Repo = Image
    /\ ItemsOf \in [Put -> SUBSET Item]
    /\ Victim \in [Removal -> Item]
    /\ Attempts \in Nat \ {0}
    /\ ItemFaults \subseteq AllItemFaults
    /\ MaxMishaps \in Nat
    /\ NoItem \notin Item
    /\ NoImage \notin Image

VARIABLES
    \* columns of the row
    itemType,    \* type, "none" until it is created
    itemStatus,  \* status, "none" before and "deleted" after the row
    pushStatus,
    image,       \* harbor_image
    \* storage, Harbor, and the temporary files of the uploads
    stored,      \* the item whose content each file has
    harbor,      \* the item whose content each reference has
    temp,        \* uploads whose file is there
    \* upload_library_file, and the push activity it starts
    target,      \* item_id
    handler,
    pusher,
    ref,         \* dest_image of the push
    \* delete_library_item and delete_library_file_activity
    removal,
    found,       \* harbor_image as the activity read it
    tries,       \* attempts that failed
    \* auxiliary
    hasty,       \* items deleted while an upload or push was at work, or
                 \* without a look at their image
    taken,       \* repositories and digests of the artifacts deletions were for
    rushed,      \* references pushed into a repository about to be removed
    untold,      \* references pushed of which the row was not told to the end
    stuck,       \* items whose "pushing" nobody is left to settle
    mishaps      \* bounded by MaxMishaps

rowVars == <<itemType, itemStatus, pushStatus, image>>
contentVars == <<stored, harbor, temp>>
pushVars == <<target, handler, pusher, ref>>
removalVars == <<removal, found, tries>>
historyVars == <<hasty, taken, rushed, untold, stuck>>
auxVars == <<historyVars, mishaps>>
itemVars == <<rowVars, contentVars, pushVars, removalVars, auxVars>>

(* An item's image or artifact is the same, byte by byte, as that of another *)
(* item of its type made from the same archive.                             *)
Digest(i) == <<itemType[i], Archive[i]>>
Artifact(r) == <<Repo[r], Digest(harbor[r])>>

HandlerPcs == {"idle", "receive", "put", "ready", "start", "record", "confirm",
               "refuse", "unsaid", "done"}
BeforeVerdict == {"load", "push", "tell", "fail"}
PushActive == BeforeVerdict \cup {"clean"}
RemovalPcs == {"idle", "read", "image", "repo", "file", "row", "done", "given_up"}

ItemTypeOK ==
    /\ itemType \in [Item -> {"none", "container", "llm", "general"}]
    /\ itemStatus \in [Item -> {"none", "uploading", "ready", "failed", "deleted"}]
    /\ pushStatus \in [Item -> {"null", "pending", "pushing", "pushed", "failed"}]
    /\ image \in [Item -> Image \cup {NoImage}]
    /\ stored \in [File -> Item \cup {NoItem}]
    /\ harbor \in [Image -> Item \cup {NoItem}]
    /\ temp \subseteq Put
    /\ target \in [Put -> Item \cup {NoItem}]
    /\ handler \in [Put -> HandlerPcs]
    /\ pusher \in [Put -> PushActive \cup {"none", "ended", "dead"}]
    /\ ref \in [Put -> Image \cup {NoImage}]
    /\ removal \in [Removal -> RemovalPcs]
    /\ found \in [Removal -> Image \cup {NoImage}]
    /\ tries \in [Removal -> 0 .. Attempts]
    /\ hasty \subseteq Item
    /\ taken \subseteq {Repo[r] : r \in Image}
                    \X ({"none", "container", "llm", "general"}
                          \X {Archive[i] : i \in Item})
    /\ rushed \subseteq Image
    /\ untold \subseteq Image
    /\ stuck \subseteq Item
    /\ mishaps \in 0 .. MaxMishaps

ItemInit ==
    /\ itemType = [i \in Item |-> "none"]
    /\ itemStatus = [i \in Item |-> "none"]
    /\ pushStatus = [i \in Item |-> "null"]
    /\ image = [i \in Item |-> NoImage]
    /\ stored = [f \in File |-> NoItem]
    /\ harbor = [r \in Image |-> NoItem]
    /\ temp = {}
    /\ target = [u \in Put |-> NoItem]
    /\ handler = [u \in Put |-> "idle"]
    /\ pusher = [u \in Put |-> "none"]
    /\ ref = [u \in Put |-> NoImage]
    /\ removal = [d \in Removal |-> "idle"]
    /\ found = [d \in Removal |-> NoImage]
    /\ tries = [d \in Removal |-> 0]
    /\ hasty = {}
    /\ taken = {} /\ rushed = {}
    /\ untold = {}
    /\ stuck = {}
    /\ mishaps = 0

-----------------------------------------------------------------------------
(* What goes wrong around the program, within the bound.                    *)
Mishap(f) ==
    /\ f \in ItemFaults
    /\ mishaps < MaxMishaps
    /\ mishaps' = mishaps + 1

AllWell == UNCHANGED mishaps

(* The row.                                                                 *)

InLibrary(i) == itemStatus[i] \in {"uploading", "ready", "failed"}

(* An update of one column finds the row, or nothing to update.             *)
SetPushStatus(i, s) ==
    pushStatus' = IF InLibrary(i) THEN [pushStatus EXCEPT ![i] = s]
                                  ELSE pushStatus

SetItemStatus(i, s) ==
    itemStatus' = IF InLibrary(i) THEN [itemStatus EXCEPT ![i] = s]
                                  ELSE itemStatus

(* One of these uploads of the item, or its push, is under way.             *)
AtWork(i, uploads) ==
    \E u \in uploads : /\ target[u] = i
                       /\ \/ handler[u] \notin {"idle", "done"}
                          \/ pusher[u] \in PushActive

Disturbs(i, uploads) ==
    hasty' = IF AtWork(i, uploads) THEN hasty \cup {i} ELSE hasty

(* The row goes and nobody looks at Harbor: with two uploads of one item it  *)
(* may have been pushed, and then be deleted by the upload that breaks off,  *)
(* or at once by a request that finds it failed.                             *)
DropRow(i, uploads) ==
    /\ SetItemStatus(i, "deleted")
    /\ IF image[i] # NoImage THEN hasty' = hasty \cup {i}
                             ELSE Disturbs(i, uploads)

CreateItem(i) ==
    /\ itemStatus[i] = "none"
    /\ itemStatus' = [itemStatus EXCEPT ![i] = "uploading"]
    /\ \E t \in ItemTypes[i] :
         /\ itemType' = [itemType EXCEPT ![i] = t]
         /\ pushStatus' = [pushStatus EXCEPT
                             ![i] = IF t = "general" THEN "null" ELSE "pending"]
    /\ UNCHANGED <<image, contentVars, pushVars, removalVars, auxVars>>

-----------------------------------------------------------------------------
(* upload_library_file.  Two uploads of one item may both find it in        *)
(* "uploading": the status changes only when a file is there.               *)

Type(u) == itemType[target[u]]
Slot(u) == FileOf[target[u]]

HandlerStep(u, from, to) ==
    /\ handler[u] = from
    /\ handler' = [handler EXCEPT ![u] = to]

BeginPut(u) ==
    /\ HandlerStep(u, "idle", "receive")
    /\ \E i \in ItemsOf[u] : /\ itemStatus[i] = "uploading"
                             /\ target' = [target EXCEPT ![u] = i]
    /\ UNCHANGED <<rowVars, contentVars, pusher, ref, removalVars, auxVars>>

Store(f, i) == stored' = [stored EXCEPT ![f] = i]

(* A container is streamed to the storage, the rest to a temporary file.    *)
Receive(u) ==
    /\ HandlerStep(u, "receive", IF Type(u) = "general" THEN "put" ELSE "ready")
    /\ \/ Type(u) = "container" /\ Store(Slot(u), target[u]) /\ UNCHANGED temp
       \/ Type(u) # "container" /\ temp' = temp \cup {u} /\ UNCHANGED stored
    /\ UNCHANGED <<rowVars, harbor, target, pusher, ref, removalVars, auxVars>>

(* The stream breaks off, or the commit of its progress finds no row.  A    *)
(* container's file is removed and the item failed, another's row goes.     *)
ReceiveFail(u) ==
    LET i == target[u]
    IN /\ HandlerStep(u, "receive", "done")
       /\ Mishap("upload_failed") \/ (~InLibrary(i) /\ AllWell)
       /\ \/ /\ Type(u) = "container"
             /\ SetItemStatus(i, "failed")
             /\ \/ Store(Slot(u), NoItem)
                \/ "cleanup_failed" \in ItemFaults /\ UNCHANGED stored
             /\ UNCHANGED hasty
          \/ /\ Type(u) # "container"
             /\ DropRow(i, Put \ {u})
             /\ UNCHANGED stored
       /\ UNCHANGED <<itemType, pushStatus, image, harbor, temp, target,
                      pusher, ref, removalVars, untold, stuck, taken, rushed>>

(* The temporary file is copied to the storage and removed in any case.     *)
PutFile(u) ==
    /\ HandlerStep(u, "put", "ready")
    /\ Store(Slot(u), target[u])
    /\ temp' = temp \ {u}
    /\ UNCHANGED <<rowVars, harbor, target, pusher, ref, removalVars, auxVars>>

PutFileFail(u) ==
    /\ Mishap("upload_failed")
    /\ HandlerStep(u, "put", "done")
    /\ SetItemStatus(target[u], "failed")
    /\ temp' = temp \ {u}
    /\ UNCHANGED <<itemType, pushStatus, image, stored, harbor, target, pusher,
                   ref, removalVars, historyVars>>

Ready(u) ==
    /\ HandlerStep(u, "ready", IF Type(u) = "general" THEN "done" ELSE "start")
    /\ InLibrary(target[u])
    /\ SetItemStatus(target[u], "ready")
    /\ UNCHANGED <<itemType, pushStatus, image, contentVars, target, pusher,
                   ref, removalVars, auxVars>>

(* The commit raises, outside any try: what was received stays.             *)
Vanished(u) ==
    /\ \E pc \in {"put", "ready"} : HandlerStep(u, pc, "done")
    /\ ~InLibrary(target[u])
    /\ UNCHANGED <<rowVars, contentVars, target, pusher, ref, removalVars,
                   auxVars>>

Scheduled(u) == pusher' = [pusher EXCEPT ![u] = "load"]

(* The session has read push_status before: an equal value is not written.  *)
StartPush(u) ==
    LET i == target[u]
    IN /\ HandlerStep(u, "start", IF pushStatus[i] = "pushing" THEN "confirm"
                                                               ELSE "record")
       /\ InLibrary(i)
       /\ Scheduled(u)
       /\ UNCHANGED <<rowVars, contentVars, target, ref, removalVars, auxVars>>

(* The start fails, or only its answer does, or there is no row to read.    *)
StartPushFail(u) ==
    /\ HandlerStep(u, "start", IF pushStatus[target[u]] = "failed" THEN "unsaid"
                                                                  ELSE "refuse")
    /\ \/ Mishap("start_failed") /\ UNCHANGED pusher
       \/ Mishap("start_unconfirmed") /\ Scheduled(u)
       \/ ~InLibrary(target[u]) /\ UNCHANGED <<pusher, mishaps>>
    /\ UNCHANGED <<rowVars, contentVars, target, ref, removalVars,
                   historyVars>>

(* The temporary file of an LLM is removed; a container's file stays.       *)
RefuseAndKeep(u) == UNCHANGED temp                       \* mutant of Forget

Forget(u) == temp' = temp \ {u}

RefusePush(u) ==
    /\ \/ HandlerStep(u, "refuse", "done") /\ SetPushStatus(target[u], "failed")
       \/ HandlerStep(u, "unsaid", "done") /\ UNCHANGED pushStatus
    /\ Forget(u)
    /\ UNCHANGED <<itemType, itemStatus, image, stored, harbor, target, pusher,
                   ref, removalVars, auxVars>>

(* "pushing" is written after the start, over what the push has written     *)
(* since.  Without a row this raises, and the handler takes it for a start  *)
(* that failed.                                                             *)
RecordPush(u) ==
    LET i == target[u]
    IN /\ \E pc \in {"record", "confirm"} : HandlerStep(u, pc, "done")
       /\ IF handler[u] = "record" /\ InLibrary(i)
            THEN /\ SetPushStatus(i, "pushing")
                 /\ stuck' = IF pusher[u] \in BeforeVerdict
                               THEN stuck ELSE stuck \cup {i}
            ELSE UNCHANGED <<pushStatus, stuck>>
       /\ IF InLibrary(i) THEN UNCHANGED temp ELSE Forget(u)
       /\ UNCHANGED <<itemType, itemStatus, image, stored, harbor, target,
                      pusher, ref, removalVars, hasty, untold, mishaps, taken,
                      rushed>>

Uploading(u) ==
    \/ Receive(u) \/ ReceiveFail(u) \/ PutFile(u) \/ PutFileFail(u)
    \/ Ready(u) \/ Vanished(u) \/ StartPush(u) \/ StartPushFail(u)
    \/ RefusePush(u) \/ RecordPush(u)

-----------------------------------------------------------------------------
(* harbor_push_activity and llm_push_activity, one attempt each.            *)

PushStep(u, from, to) ==
    /\ pusher[u] = from
    /\ pusher' = [pusher EXCEPT ![u] = to]

(* The push_status of an update that fails is lost without an error.        *)
Unwritten == Mishap("update_failed")

(* The reference an item is pushed as: what the image's file, or the        *)
(* model's metadata and the file's header or name, say of it; the row's     *)
(* name, owner and version go before those or stand in for them.            *)
ImageReference(u, r) == Type(u) = "container" /\ r \in Refs[target[u]]
ModelReference(u, r) == Type(u) = "llm" /\ r \in Refs[target[u]]

(* The records are loaded and the reference is chosen.                      *)
Load(u) ==
    LET i == target[u]
    IN /\ PushStep(u, "load", "push")
       /\ InLibrary(i)
       /\ Type(u) = "llm" => u \in temp
       /\ \E r \in Image :
             /\ ImageReference(u, r) \/ ModelReference(u, r)
             /\ ref' = [ref EXCEPT ![u] = r]
       /\ \/ SetPushStatus(i, "pushing") /\ AllWell
          \/ Unwritten /\ UNCHANGED pushStatus
       /\ UNCHANGED <<itemType, itemStatus, image, contentVars, target,
                      handler, removalVars, historyVars>>

LoadFail(u) ==
    /\ PushStep(u, "load", "fail")
    /\ \/ Mishap("push_failed")
       \/ ~InLibrary(target[u]) /\ AllWell
       \/ Type(u) = "llm" /\ u \notin temp /\ AllWell
    /\ UNCHANGED <<rowVars, contentVars, target, handler, ref, removalVars,
                   historyVars>>

(* The push tool takes a container from the storage, whoever put it there,  *)
(* and an LLM from the temporary file.                                      *)
Source(u) ==
    IF Type(u) = "container" THEN stored[Slot(u)]
    ELSE IF u \in temp THEN target[u] ELSE NoItem

(* A deletion has found the repository empty and is about to remove it.     *)
Doomed(r) == \E d \in Removal : removal[d] = "repo" /\ Repo[found[d]] = Repo[r]

Deliver(u) ==
    /\ Source(u) # NoItem
    /\ harbor' = [harbor EXCEPT ![ref[u]] = Source(u)]
    /\ rushed' = IF Doomed(ref[u]) THEN rushed \cup {ref[u]} ELSE rushed \ {ref[u]}

Push(u) ==
    /\ PushStep(u, "push", "tell")
    /\ Deliver(u)
    /\ UNCHANGED <<rowVars, stored, temp, target, handler, ref, removalVars, hasty,
                   taken, untold, stuck, mishaps>>

(* Harbor has the image and the activity does not know.                     *)
PushUnheard(u) == Deliver(u) /\ untold' = untold \cup {ref[u]}

(* The push fails, or its answer is lost and Harbor has the image.          *)
PushFail(u) ==
    /\ PushStep(u, "push", "fail")
    /\ \/ /\ Mishap("push_failed") \/ (Source(u) = NoItem /\ AllWell)
          /\ UNCHANGED <<harbor, untold, rushed>>
       \/ Mishap("push_unconfirmed") /\ PushUnheard(u)
    /\ UNCHANGED <<rowVars, stored, temp, target, handler, ref, removalVars,
                   hasty, stuck, taken>>

(* The row is told the reference, and no longer knows an earlier one.       *)
Tell(u) ==
    LET i == target[u]
    IN /\ PushStep(u, "tell", "clean")
       /\ \/ /\ InLibrary(i)
             /\ SetPushStatus(i, "pushed")
             /\ image' = [image EXCEPT ![i] = ref[u]]
             /\ untold' = IF image[i] = ref[u] THEN untold
                          ELSE untold \cup ({image[i]} \ {NoImage})
             /\ UNCHANGED <<stuck, mishaps>>
          \/ /\ ~InLibrary(i)
             /\ UNCHANGED <<pushStatus, image, untold, stuck, mishaps>>
          \/ /\ Unwritten
             /\ untold' = untold \cup {ref[u]}
             /\ stuck' = stuck \cup {i}
             /\ UNCHANGED <<pushStatus, image>>
       /\ UNCHANGED <<itemType, itemStatus, contentVars, target, handler, ref,
                      removalVars, hasty, taken, rushed>>

FailQuietly(u) ==                                        \* mutant of FailPush
    /\ PushStep(u, "fail", "clean")
    /\ UNCHANGED <<rowVars, contentVars, target, handler, ref, removalVars,
                   auxVars>>

FailPush(u) ==
    LET i == target[u]
    IN /\ PushStep(u, "fail", "clean")
       /\ \/ SetPushStatus(i, "failed") /\ UNCHANGED <<stuck, mishaps>>
          \/ Unwritten /\ stuck' = stuck \cup {i} /\ UNCHANGED pushStatus
       /\ UNCHANGED <<itemType, itemStatus, image, contentVars, target,
                      handler, ref, removalVars, hasty, untold, taken, rushed>>

(* The container leaves the storage, the temporary file the shared volume.  *)
Clean(u) ==
    /\ PushStep(u, "clean", "ended")
    /\ ref' = [ref EXCEPT ![u] = NoImage]
    /\ IF Type(u) = "container"
         THEN /\ \/ Store(Slot(u), NoItem) /\ AllWell
                 \/ Mishap("cleanup_failed") /\ UNCHANGED stored
              /\ UNCHANGED temp
         ELSE temp' = temp \ {u} /\ UNCHANGED <<stored, mishaps>>
    /\ UNCHANGED <<rowVars, harbor, target, handler, removalVars, historyVars>>

(* The worker is gone, and no attempt follows.  The push tool may still     *)
(* finish what it was sent.                                                 *)
Die(u) ==
    /\ Mishap("worker_died")
    /\ \E pc \in PushActive : PushStep(u, pc, "dead")
    /\ stuck' = stuck \cup {target[u]}
    /\ \/ pusher[u] = "push" /\ PushUnheard(u)
       \/ /\ pusher[u] = "tell"
          /\ untold' = untold \cup {ref[u]}
          /\ UNCHANGED <<harbor, rushed>>
       \/ pusher[u] # "tell" /\ UNCHANGED <<untold, harbor, rushed>>
    /\ ref' = [ref EXCEPT ![u] = NoImage]
    /\ UNCHANGED <<rowVars, stored, temp, target, handler, removalVars, hasty,
                   taken>>

PushWork(u) ==
    \/ Load(u) \/ LoadFail(u) \/ Push(u) \/ PushFail(u)
    \/ Tell(u) \/ FailPush(u) \/ Clean(u)

-----------------------------------------------------------------------------
(* delete_library_item, and delete_library_file_activity, which is tried    *)
(* again from the start when it fails.                                      *)

RemovalStep(d, from, to) ==
    /\ removal[d] = from
    /\ removal' = [removal EXCEPT ![d] = to]

RequestRemoval(d) ==
    LET i == Victim[d]
    IN /\ \/ /\ itemStatus[i] \in {"uploading", "failed"}
             /\ RemovalStep(d, "idle", "done")
             /\ DropRow(i, Put)
          \/ /\ itemStatus[i] = "ready"
             /\ RemovalStep(d, "idle", "read")
             /\ UNCHANGED <<itemStatus, hasty>>
       /\ UNCHANGED <<itemType, pushStatus, image, contentVars, pushVars,
                      found, tries, untold, stuck, mishaps, taken, rushed>>

ForgetImage(d) == found' = [found EXCEPT ![d] = NoImage] \* mutant of NoteImage

NoteImage(d) == found' = [found EXCEPT ![d] = image[Victim[d]]]

ReadItem(d) ==
    LET i == Victim[d]
    IN /\ \/ /\ InLibrary(i)
             /\ NoteImage(d)
             /\ RemovalStep(d, "read",
                            IF found'[d] = NoImage THEN "file" ELSE "image")
             /\ Disturbs(i, Put)
          \/ /\ ~InLibrary(i)
             /\ RemovalStep(d, "read", "done")
             /\ UNCHANGED <<found, hasty>>
       /\ UNCHANGED <<rowVars, contentVars, pushVars, tries, untold, stuck,
                      mishaps, taken, rushed>>

Remaining(R) == harbor' = [r \in Image |-> IF r \in R THEN harbor[r] ELSE NoItem]

TakeOutAll(r) ==                                         \* mutant of TakeOut
    /\ harbor[r] # NoItem
    /\ Remaining({q \in Image : Repo[q] # Repo[r]})
    /\ taken' = taken \cup {Artifact(r)}

(* The reference is resolved to its artifact, and this is deleted: every    *)
(* reference the artifact has in its repository goes.                       *)
TakeOut(r) ==
    /\ harbor[r] # NoItem
    /\ Remaining({q \in Image : harbor[q] # NoItem => Artifact(q) # Artifact(r)})
    /\ taken' = taken \cup {Artifact(r)}

(* Then the repository is listed; nothing may be left in it by then.        *)
DeleteImage(d) ==
    LET r == found[d]
    IN /\ \/ RemovalStep(d, "image", "file") /\ TakeOut(r)
          \/ /\ RemovalStep(d, "image", "repo") /\ TakeOut(r)
             /\ \A q \in Image : Repo[q] = Repo[r] => harbor'[q] = NoItem
          \/ /\ RemovalStep(d, "image", "file")
             /\ harbor[r] = NoItem
             /\ UNCHANGED <<harbor, taken>>
       /\ UNCHANGED <<rowVars, stored, temp, pushVars, found, tries, hasty, untold,
                      stuck, mishaps, rushed>>

(* A repository that was empty is removed with what has come since.         *)
DropRepo(d) == Remaining({q \in Image : Repo[q] # Repo[found[d]]})

DeleteRepo(d) ==
    /\ RemovalStep(d, "repo", "file")
    /\ DropRepo(d)
    /\ UNCHANGED <<rowVars, stored, temp, pushVars, found, tries, auxVars>>

(* rm -f in the storage pod, its failure only logged.  file_path is a path  *)
(* there for a container, a path on the shared volume for an LLM, and a URL *)
(* for the rest, which rm does not find.                                    *)
DeleteFile(d) ==
    LET i == Victim[d]
    IN /\ RemovalStep(d, "file", "row")
       /\ \/ UNCHANGED <<stored, temp>>
          \/ /\ itemType[i] = "container"
             /\ Store(FileOf[i], NoItem)
             /\ UNCHANGED temp
          \/ /\ itemType[i] = "llm"
             /\ \E u \in Put : target[u] = i /\ temp' = temp \ {u}
             /\ UNCHANGED stored
       /\ UNCHANGED <<rowVars, harbor, pushVars, found, tries, auxVars>>

DeleteRow(d) ==
    /\ RemovalStep(d, "row", "done")
    /\ SetItemStatus(Victim[d], "deleted")
    /\ UNCHANGED <<itemType, pushStatus, image, contentVars, pushVars, found,
                   tries, auxVars>>

(* Harbor may have deleted the image although its answer is lost.            *)
RemovalFail(d) ==
    /\ Mishap("delete_failed")
    /\ tries' = [tries EXCEPT ![d] = @ + 1]
    /\ \E pc \in {"read", "image", "repo", "row"} :
         RemovalStep(d, pc, IF tries'[d] = Attempts THEN "given_up" ELSE "read")
    /\ \/ removal[d] = "image" /\ TakeOut(found[d])
       \/ removal[d] = "repo" /\ DropRepo(d) /\ UNCHANGED taken
       \/ UNCHANGED <<harbor, taken>>
    /\ UNCHANGED <<rowVars, stored, temp, pushVars, found, hasty, rushed, untold,
                   stuck>>

Removing(d) ==
    \/ ReadItem(d) \/ DeleteImage(d) \/ DeleteRepo(d) \/ DeleteFile(d)
    \/ DeleteRow(d) \/ RemovalFail(d)

-----------------------------------------------------------------------------
(* Nothing is under way.  Requests need not come.                           *)
AtRest ==
    /\ \A i \in Item : itemStatus[i] # "none"
    /\ \A u \in Put : /\ handler[u] \in {"idle", "done"}
                      /\ pusher[u] \notin PushActive
    /\ \A d \in Removal : removal[d] \in {"idle", "done", "given_up"}
    /\ UNCHANGED itemVars

ItemNext ==
    \/ AtRest
    \/ \E i \in Item : CreateItem(i)
    \/ \E u \in Put : BeginPut(u) \/ Uploading(u) \/ PushWork(u) \/ Die(u)
    \/ \E d \in Removal : RequestRemoval(d) \/ Removing(d)

ItemSpec == ItemInit /\ [][ItemNext]_itemVars

-----------------------------------------------------------------------------
(* Whatever Harbor has under a reference, somebody can still find it: a row *)
(* names it, the push is about to tell its row, the row could not be told   *)
(* or has been told of another since, or the item it may have come from was *)
(* deleted in the middle of an upload or push.  This is what the order of   *)
(* delete_library_file_activity (Harbor, storage, row) is for.              *)
ImageTraced ==
    \A r \in Image : harbor[r] # NoItem =>
        \/ \E i \in Item : InLibrary(i) /\ image[i] = r
        \/ \E u \in Put : pusher[u] = "tell" /\ ref[u] = r
        \/ r \in untold
        \/ \E i \in hasty : r \in Refs[i]

(* Items whose content may be pushed under r.                               *)
Behind(r) ==
    {i \in Item : \E j \in Item : r \in Refs[j] /\ FileOf[i] = FileOf[j]}

(* What a row names is in Harbor, with the content of the item, or of one   *)
(* that shares its file name or may be pushed under the same reference; but *)
(* Harbor may have lost it to the deletion of an item of the same content   *)
(* in the same repository, whatever the tag, or with the repository.  "if   *)
(* other versions/tags are pushed in the same repo, don't touch them"       *)
(* (_harbor_delete_repo_if_empty, lines 81-82) is more than the code does.  *)
PushedIsThere ==
    \A i \in Item : InLibrary(i) /\ image[i] # NoImage =>
        \/ harbor[image[i]] \in Behind(image[i])
        \/ \E j \in Behind(image[i]) : <<Repo[image[i]], Digest(j)>> \in taken
        \/ image[i] \in rushed

(* A temporary file belongs to an upload at work or to its push, running or *)
(* dead with its worker, unless the item was deleted under it.              *)
TempHasOwner ==
    \A u \in temp : \/ handler[u] \notin {"idle", "done"}
                    \/ pusher[u] \in PushActive \cup {"dead"}
                    \/ target[u] \in hasty

(* An item is shown as "pushing" only while a push of it is on the way to    *)
(* its verdict, unless that push has died, could not write, or was over     *)
(* when the handler wrote "pushing".                                        *)
Pushing(i) == InLibrary(i) /\ pushStatus[i] = "pushing"

PushingHasPush ==
    \A i \in Item : Pushing(i) =>
        \/ i \in stuck
        \/ \E u \in Put : target[u] = i /\ pusher[u] \in BeforeVerdict
=============================================================================
