------------------------- MODULE FileStateMgrFaults -------------------------
(***************************************************************************)
(* FileStateMgr on a disk that can be full, and on a machine that can lose *)
(* power.  write_file() looks at the result of none of its calls and never *)
(* calls fsync(), so both reach the file that rename() puts in place.      *)
(***************************************************************************)
EXTENDS FileStateMgr

VARIABLE durable   \* path -> what the disk itself holds of files

faultVars == <<filesVars, durable>>

FaultInit == FilesInit /\ durable = [p \in Path |-> Absent]

\* A full disk: none or some of the bytes get into path.tmp.
WriteFails == /\ pc = "write"
              /\ pc' = "rename"
              /\ \E c \in {Empty, Torn} : tmp' = [tmp EXCEPT ![job.path] = c]
              /\ UNCHANGED <<files, job, srv, conf, saved, cast, durable>>

(* The kernel writes data and directory entries back when it likes.        *)
Writeback == /\ durable' = files
             /\ UNCHANGED filesVars

(* After a power loss a file that was not written back is what it was, or  *)
(* what it was to be, or a name whose data never arrived.                  *)
AfterPowerLoss(p) == {files[p], durable[p]}
                       \cup (IF files[p] = durable[p] THEN {} ELSE {Empty})
PowerLoss == /\ pc # "down"
             /\ pc' = "down"
             /\ files' \in [Path -> UNION {AfterPowerLoss(p) : p \in Path}]
             /\ \A p \in Path : files'[p] \in AfterPowerLoss(p)
             /\ durable' = files'
             /\ tmp' = [p \in Path |-> Absent]
             /\ srv' = NewState /\ conf' = Alone /\ job' = NoJob
             /\ UNCHANGED <<saved, cast>>

FaultSpec == FaultInit /\ [][(FilesNext /\ UNCHANGED durable) \/ WriteFails
                             \/ Writeback \/ PowerLoss]_faultVars
=============================================================================
