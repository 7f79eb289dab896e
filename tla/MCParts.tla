-------------------------------- MODULE MCParts --------------------------------
(* One instance for TLC of the parts that share no state and no thread: the  *)
(* device ring, File, LogFile, Descriptors, and the creation of what is      *)
(* global.  In a behaviour one part moves, the one `part` names, and the     *)
(* others stay as they are: a product of all would only multiply the states. *)
EXTENDS IODevice, GlobalInstance, File, LogFile, Descriptors

VARIABLE part

PartsInit ==
    /\ part \in {"ring", "global", "file", "log", "numbers"}
    /\ Init /\ GetInit /\ FileInit /\ LogInit /\ NumbersInit
    /\ part # "ring" => ~sequential
    /\ part # "file" => fileSize = 0
    /\ part # "log" => stamped /\ ~shared
    /\ part # "numbers" => table[0] # 0

PartsNext ==
    \/ part = "ring" /\ Next
         /\ UNCHANGED <<part, getVars, fileVars, logVars, numberVars>>
    \/ part = "global" /\ GetNext
         /\ UNCHANGED <<part, vars, fileVars, logVars, numberVars>>
    \/ part = "file" /\ FileNext
         /\ UNCHANGED <<part, vars, getVars, logVars, numberVars>>
    \/ part = "log" /\ LogNext
         /\ UNCHANGED <<part, vars, getVars, fileVars, numberVars>>
    \/ part = "numbers" /\ NumbersNext
         /\ UNCHANGED <<part, vars, getVars, fileVars, logVars>>

partsVars == <<part, vars, getVars, fileVars, logVars, numberVars>>

PartsSpec == PartsInit /\ [][PartsNext]_partsVars

(* The properties are those of the parts, where each is explained.           *)

\* IODevice, File, LogFile, Descriptors: types, indexes that stay inside the
\* ring, and positions of a good stream that lie inside the file.
PartsTypeOK == TypeOK /\ FileTypeOK /\ LogTypeOK /\ NumbersTypeOK

===============================================================================
