----------------------------- MODULE PeerFetch ------------------------------
(***************************************************************************)
(* A peer in C (src/A4/handout/src/peer.c) that asks the Python peer of    *)
(* PeerRetrieve for a file, with send_message(COMMAND_RETREIVE): it is the *)
(* requester of one of the handler threads.  It writes every block of the  *)
(* answer into its own copy, in place, when it comes, and compares the     *)
(* hash of the file in the end.                                            *)
(*                                                                         *)
(* As handed out, client_thread does not come to this call: the list of    *)
(* peers is left to the student to fill, and get_random_peer of a list     *)
(* with nobody else divides by zero.  The call itself is complete.         *)
(***************************************************************************)
EXTENDS PeerRetrieve

CONSTANTS
  Asked,       \* the handler thread of the C peer's request
  OldLengths   \* blocks of the copy it may have from an earlier time

VARIABLES
  fetch,       \* where send_message is, and the length of the copy it began with
  left,        \* numbers of the blocks of the answer that have not come
  copy         \* the blocks of output_file_path

fetchVars == <<fetch, left, copy>>

ASSUME FetchAssumption == Asked \in Handlers /\ OldLengths \subseteq Nat

Answer == reply[Asked][1]
Hole   == <<-2, 0>>

\* The file is created, empty, before anything else if there is none.
FetchInit ==
  /\ \E n \in OldLengths :
       /\ fetch = [at |-> "reply", old |-> n]
       /\ copy = [i \in 1..n |-> <<0, i>>]
  /\ left = {}

FetchGoes(from, to) == fetch.at = from /\ fetch' = [fetch EXCEPT !.at = to]

\* The first header tells how many blocks there are; an empty file is one
\* block without contents.
ReadFirstHeader ==
  /\ reply[Asked] # << >>
  /\ \/ Answer.status = "OK" /\ FetchGoes("reply", "block") /\ left' = 1..Max({1, Len(Answer.data)})
     \/ Answer.status # "OK" /\ FetchGoes("reply", "given up") /\ UNCHANGED left
  /\ UNCHANGED copy

\* mutant: the block is written at the end of the file
InPlace_AtEnd(blocks, i, block) == Append(blocks, block)

\* fseek and fputs: what lies between the end of the file and the block is a hole.
InPlace(blocks, i, block) ==
  [k \in 1..Max({i, Len(blocks)}) |->
     IF k = i THEN block ELSE IF k \in DOMAIN blocks THEN blocks[k] ELSE Hole]

ReadBlockOfAnswer ==
  /\ fetch.at = "block"
  /\ \E i \in left :
       /\ left' = left \ {i}
       /\ copy' = IF i \in DOMAIN Answer.data THEN InPlace(copy, i, Answer.data[i]) ELSE copy
  /\ fetch' = IF left' = {} THEN [fetch EXCEPT !.at = "check"] ELSE fetch

\* The connection is lost: a header that does not come is made of what msg_buf
\* held, and does not match or has a length that no stack has room for; a
\* payload that does not come does not match its hash.  send_message returns or
\* the process crashes.
ConnectionLost ==
  /\ \E from \in {"reply", "block"} : FetchGoes(from, "given up")
  /\ UNCHANGED <<left, copy>>

\* get_file_sha: "Confirm that our file is indeed correct"
CheckCopy ==
  /\ FetchGoes("check", IF copy = Answer.data THEN "fetched" ELSE "mismatch")
  /\ UNCHANGED <<left, copy>>

FetchNext == ReadFirstHeader \/ ReadBlockOfAnswer \/ ConnectionLost \/ CheckCopy

-----------------------------------------------------------------------------
(* The two peers *)

PeersInit == FilesInit /\ FetchInit
PeersNext == (FilesNext /\ UNCHANGED fetchVars) \/ (FetchNext /\ UNCHANGED filesVars)

PeersSpec == /\ PeersInit /\ [][PeersNext]_<<filesVars, fetchVars>>
             /\ WF_filesVars(ToServer) /\ \A h \in Handlers : WF_filesVars(HandleRequest(h))

\* Nothing cuts the copy off before it is written in place, so that a longer one
\* keeps its tail.  That is all that can go wrong with a transfer that was not
\* lost: with a copy that was no longer than the answer the fetch succeeds, in
\* whatever order the blocks come.
OnlyLongerCopiesMismatch == fetch.at = "mismatch" => fetch.old > Len(Answer.data)
=============================================================================
