------------------------------ MODULE PathSet ------------------------------
(***************************************************************************)
(* The client's set of active QUIC paths: the operations of clientPathSet  *)
(* in internal/quictransport/client.go as operators on its fields.         *)
(*                                                                         *)
(*   paths    the slice s.paths: a sequence of [id, stream] records.  The  *)
(*            address and the connection of a clientPath travel with its   *)
(*            stream and are left out.                                     *)
(*   next     s.next, the slice index (from 0) the next scan starts at.    *)
(*   cooling  the path ids whose health entry is cooling down.             *)
(*                                                                         *)
(* Every Go method holds s.mu from its first to its last line, so one use  *)
(* of an operator in an action is one call of the method.  Slice indexes   *)
(* count from 0: slice index k is paths[k + 1].                            *)
(***************************************************************************)
EXTENDS Integers, SequencesExt

IdsOf(paths)     == {paths[k].id : k \in DOMAIN paths}
StreamsOf(paths) == {paths[k].stream : k \in DOMAIN paths}

(* No two paths of one id, and no stream twice.                            *)
Distinct(paths) ==
  \A k, l \in DOMAIN paths :
    k # l => paths[k].id # paths[l].id /\ paths[k].stream # paths[l].stream

(* The positions a linear scan stops at: the first one is the one it takes. *)
PositionsOfId(paths, id)         == {k \in DOMAIN paths : paths[k].id = id}
PositionsOfStream(paths, stream) == {k \in DOMAIN paths : paths[k].stream = stream}

(* Mutant: the scan returns from its first round.                          *)
HasPathID_First(paths, id) == paths # << >> /\ paths[1].id = id

HasPathID(paths, id) == id \in IdsOf(paths)

(* add: a path with the same id is replaced in place, and its old stream is *)
(* returned to the caller, which closes it; otherwise the path goes last.   *)
AddPath(paths, path) ==
  IF HasPathID(paths, path.id)
  THEN [paths EXCEPT ![Min(PositionsOfId(paths, path.id))] = path]
  ELSE Append(paths, path)

Replaced(paths, path) ==
  IF HasPathID(paths, path.id)
  THEN {paths[Min(PositionsOfId(paths, path.id))].stream}
  ELSE {}

(* remove: by stream, not by id, so that a removal decided on an old stream *)
(* of a path cannot hit the stream that has replaced it.                    *)
RemovePath(paths, stream) ==
  IF stream \in StreamsOf(paths)
  THEN RemoveAt(paths, Min(PositionsOfStream(paths, stream)))
  ELSE paths

(* Mutant: next keeps its value when the slice shrinks.                    *)
NextAfterRemove_Kept(paths, next, stream) == next

NextAfterRemove(paths, next, stream) ==
  LET left == Len(RemovePath(paths, stream))
  IN  IF stream \notin StreamsOf(paths) THEN next
      ELSE IF left = 0 THEN 0
      ELSE IF next >= left THEN next % left ELSE next

(* nextPath: scan once around from next and take the first path that is not *)
(* cooling down; when all of them are, take the one the scan started at.    *)
NextIndex(paths, next, cooling) ==
  LET n     == Len(paths)
      start == next % n
      warm  == {k \in 0..(n - 1) : paths[((start + k) % n) + 1].id \notin cooling}
  IN  IF warm = {} THEN start ELSE (start + Min(warm)) % n

PathAt(paths, index)    == paths[index + 1]
NextAfter(paths, index) == (index + 1) % Len(paths)
=============================================================================
