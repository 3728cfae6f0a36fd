---------------------------- MODULE DiskManager ----------------------------
(***************************************************************************)
(* One DiskManager (storage/disk.rs) on one file: create, open,            *)
(* open_read_only, allocate_page, write_page, set_catalog_root_page_id and *)
(* sync, any of which may fail, with the process stopping at any point and *)
(* at most MaxPowerLosses losses of whatever was not yet synced.           *)
(*                                                                         *)
(* Environment: a file system that keeps a file's name once the file was   *)
(* synced, writes page zero's two words together and reports a failed sync *)
(* without forgetting what remained to be written.                         *)
(***************************************************************************)
EXTENDS DiskFile, FiniteSets

CONSTANTS
    NoFile,          \* nothing at the path
    Closed,          \* no manager holds the file
    MaxPowerLosses   \* bound on power losses

ASSUME DiskManagerAssumption ==
    /\ NoFile \notin File
    /\ Closed \notin Manager
    /\ MaxPowerLosses \in Nat

VARIABLES
    file,      \* the file as reads see it, or NoFile
    mgr,       \* the open manager, or Closed
    synced,    \* the file as of the last sync: what a power loss cannot take
    headers,   \* every [next, root] page zero has held since then, that one included
    unsynced,  \* data pages changed since then
    granted,   \* ghost: pages allocate_page handed out
    losses     \* power losses so far

vars == <<file, mgr, synced, headers, unsynced, granted, losses>>

HeaderOf(f) == [next |-> f.next, root |-> f.root]

TypeOK ==
    /\ file \in File \cup {NoFile}
    /\ mgr \in Manager \cup {Closed}
    /\ synced \in File
    /\ headers \subseteq [next : 0 .. PageIdLimit, root : 0 .. PageIdLimit]
    /\ unsynced \subseteq DataPages
    /\ granted \subseteq DataPages
    /\ losses \in 0 .. MaxPowerLosses

Init ==
    /\ file = NoFile
    /\ mgr = Closed
    /\ synced = ShortFile
    /\ headers = {HeaderOf(ShortFile)}
    /\ unsynced = {}
    /\ granted = {}
    /\ losses = 0

\* The bookkeeping of every step that leaves the file `f`.
FileBecomes(f) ==
    /\ file' = f
    /\ headers' = headers \cup {HeaderOf(f)}
    /\ unsynced' = unsynced \cup {p \in DataPages : f.pages[p] # file.pages[p]}
    /\ UNCHANGED <<synced, losses>>

-----------------------------------------------------------------------------
(* create never overwrites; cut short, or failing to sync, it leaves the   *)
(* file behind.                                                            *)
Create ==
    /\ file = NoFile
    /\ \/ /\ file' = CreatedFile
          /\ mgr' = OpenManager(CreatedFile, FALSE)
          /\ synced' = CreatedFile
          /\ headers' = {HeaderOf(CreatedFile)}
       \/ /\ file' \in {ShortFile, CreatedFile}
          /\ mgr' = Closed
          /\ headers' = headers \cup {HeaderOf(file')}
          /\ UNCHANGED synced
    /\ UNCHANGED <<unsynced, granted, losses>>

Open(readOnly) ==
    /\ mgr = Closed
    /\ file # NoFile
    /\ Openable(file)
    /\ mgr' = OpenManager(file, readOnly)
    /\ UNCHANGED <<file, synced, headers, unsynced, granted, losses>>

AllocatePage ==
    /\ mgr # Closed
    /\ \E o \in AllocatePageOutcomes(mgr, file) :
         /\ mgr' = o.mgr
         /\ FileBecomes(o.file)
         /\ granted' = IF o.res = "Ok" THEN granted \cup {mgr.next} ELSE granted

WritePage(p) ==
    /\ mgr # Closed
    /\ \E bytes \in Content : \E o \in WritePageOutcomes(mgr, file, p, bytes) :
         /\ mgr' = o.mgr
         /\ FileBecomes(o.file)
    /\ UNCHANGED granted

SetCatalogRoot(p) ==
    /\ mgr # Closed
    /\ \E o \in SetCatalogRootOutcomes(mgr, file, p) :
         /\ mgr' = o.mgr
         /\ FileBecomes(o.file)
    /\ UNCHANGED granted

Sync ==
    /\ mgr # Closed
    /\ synced' = file
    /\ headers' = {HeaderOf(file)}
    /\ unsynced' = {}
    /\ UNCHANGED <<file, mgr, granted, losses>>

\* The manager is dropped or its process dies; nothing is buffered in it.
Stop ==
    /\ mgr # Closed
    /\ mgr' = Closed
    /\ UNCHANGED <<file, synced, headers, unsynced, granted, losses>>

\* Each page changed since the last sync, the header page and the length are
\* each as old or as new as it happens; a changed page may also be torn.  Pages
\* granted since the last sync are lost with it.
PowerLoss ==
    /\ losses < MaxPowerLosses
    /\ file # NoFile
    /\ \E h \in headers, lost \in [unsynced -> Bytes], len \in synced.len .. file.len :
       \E ragged \in {synced.ragged, file.ragged, len # file.len} :
         LET f == [len |-> len, ragged |-> ragged, next |-> h.next, root |-> h.root,
                   pages |-> [p \in DataPages |->
                                IF p >= len THEN Zero
                                ELSE IF p \in unsynced THEN lost[p]
                                ELSE synced.pages[p]]]
         IN  /\ file' = f
             /\ synced' = f
             /\ headers' = {h}
    /\ mgr' = Closed
    /\ unsynced' = {}
    /\ granted' = {p \in granted : p < synced.next}
    /\ losses' = losses + 1

Next ==
    \/ Create
    \/ \E readOnly \in BOOLEAN : Open(readOnly)
    \/ AllocatePage
    \/ \E p \in DataPages : WritePage(p) \/ SetCatalogRoot(p)
    \/ Sync
    \/ Stop
    \/ PowerLoss

Spec == Init /\ [][Next]_vars

-----------------------------------------------------------------------------
(* While a manager is open, the header on disk never claims more pages than *)
(* the manager knows of, nor the manager more than the file has: the order  *)
(* "extend the file, raise the mark, write the header" of allocate_page,    *)
(* under every failure and every earlier crash.                             *)
HeaderBacked ==
    mgr # Closed => file.next <= mgr.next /\ mgr.next <= file.len

(* Without power losses a file whose creation completed is refused by open  *)
(* only when it ends in a fraction of a page: no failed allocation, header  *)
(* write or crash makes it unopenable otherwise.                            *)
OnlyRaggedFilesAreRefused ==
    losses = 0 /\ file # NoFile => (file.len >= 1 /\ ~file.ragged => Openable(file))

(* A page handed out by allocate_page is covered by the header on disk, and *)
(* a power loss can only take back pages granted since the last sync: with  *)
(* HeaderBacked, no page is handed out twice across failures and restarts.  *)
GrantsArePersisted == \A p \in granted : p < file.next

(* What a granted page holds changes only by write_page of that page (or by *)
(* a power loss): growing the file never zeroes a page in use.              *)
GrantedPagesKept ==
    [][\A p \in granted : file'.pages[p] # file.pages[p] => WritePage(p) \/ PowerLoss]_vars

(* The catalog root on disk is a page the header on disk counts as          *)
(* allocated, and agrees with the manager's; once it is synced it is the    *)
(* root for ever ("sets the catalog root exactly once").                    *)
RootIsFinal ==
    file # NoFile =>
      LET onDisk == DecodeRoot(file.root) IN
        (file.next >= FirstDataPageId /\ onDisk # NoRoot) =>
            /\ onDisk < file.next
            /\ mgr # Closed => mgr.root = onDisk
            /\ synced.next >= FirstDataPageId /\ DecodeRoot(synced.root) # NoRoot
                 => onDisk = DecodeRoot(synced.root)

(* A manager opened read-only leaves the file alone.                        *)
ReadOnlyNeverWrites ==
    [][mgr # Closed /\ mgr.readOnly /\ ~PowerLoss => file' = file]_vars
=============================================================================
