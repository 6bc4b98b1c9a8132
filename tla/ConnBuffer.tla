------------------------------ MODULE ConnBuffer ------------------------------
(***************************************************************************)
(* How process_conn() of src/sigma_dut.c cuts the bytes of a control       *)
(* connection into commands.  recv() brings any number of bytes up to the  *)
(* room that conn->buf has left; each command in it is given to            *)
(* process_cmd(), what is left waits at the head of the buffer, and what   *)
(* fills the buffer without an end of line is dropped.  CR and LF are one  *)
(* byte here: the code never tells them apart.                             *)
(***************************************************************************)
EXTENDS Naturals, Sequences, FiniteSetsExt

CONSTANTS
  Letters,     \* bytes that are part of a command
  Eol,         \* CR or LF
  Room,        \* MAX_CMD_LEN + 5, the size of conn->buf
  MaxBytes,    \* bound of the model on the bytes of a client
  MaxClients   \* bound of the model on the clients of the slot

ASSUME BufferAssumption == Room \in Nat /\ Room > 0

VARIABLES
  buf,        \* conn->buf, up to the end of what recv() has put there
  pos,        \* conn->pos: bytes that waited before this recv()
  res,        \* bytes after them that have not been looked at
  slot,       \* "free", "recv": waiting for select(), "scan"
  clients,    \* the clients that this slot has had
  received,   \* all that recv() has returned to the client of the slot
  commands    \* what process_cmd() was given for it

bufferVars == <<buf, pos, res, slot, clients, received, commands>>

BufferInit ==
  /\ buf = <<>> /\ pos = 0 /\ res = 0
  /\ slot = "free" /\ clients = 0
  /\ received = <<>> /\ commands = <<>>

(* Mutation: what the last client has left in the buffer stays.            *)
BufferAccept_KeepsPos ==
  /\ slot = "free" /\ clients < MaxClients
  /\ clients' = clients + 1
  /\ slot' = "recv"
  /\ received' = <<>> /\ commands' = <<>>
  /\ UNCHANGED <<buf, pos, res>>
BufferAccept ==
  /\ slot = "free" /\ clients < MaxClients
  /\ clients' = clients + 1
  /\ pos' = 0
  /\ slot' = "recv"
  /\ received' = <<>> /\ commands' = <<>>
  /\ UNCHANGED <<buf, res>>

Chunks == UNION {[1..n -> Letters \cup {Eol}] : n \in 1..(Room - pos)}

BufferRecv ==
  /\ slot = "recv"
  /\ \E chunk \in Chunks :
       /\ Len(received) + Len(chunk) <= MaxBytes
       /\ buf' = SubSeq(buf, 1, pos) \o chunk
       /\ res' = Len(chunk)
       /\ received' = received \o chunk
  /\ slot' = "scan"
  /\ UNCHANGED <<pos, clients, commands>>

(* recv() fails or returns 0.                                              *)
BufferClose ==
  /\ slot = "recv"
  /\ slot' = "free"
  /\ UNCHANGED <<buf, pos, res, clients, received, commands>>

(* One round of the loop over what has been received.                      *)
Ends == {i \in (pos + 1)..(pos + res) : buf[i] = Eol}

(* Mutation: a buffer that is just full is kept.                           *)
ScanIncomplete_KeepsFull ==
  /\ slot = "scan" /\ Ends = {}
  /\ pos' = IF pos + res > Room THEN 0 ELSE pos + res
  /\ res' = 0
  /\ slot' = "recv"
  /\ UNCHANGED <<buf, clients, received, commands>>
ScanIncomplete ==
  /\ slot = "scan" /\ Ends = {}
  /\ pos' = IF pos + res >= Room THEN 0 ELSE pos + res
  /\ res' = 0
  /\ slot' = "recv"
  /\ UNCHANGED <<buf, clients, received, commands>>

ScanCommand ==
  /\ slot = "scan" /\ Ends # {}
  /\ LET last == pos + res
         end == Min(Ends)
         next == Min({i \in (end + 1)..(last + 1) :
                        i > last \/ buf[i] # Eol})
     IN /\ commands' = Append(commands, SubSeq(buf, 1, end - 1))
        /\ buf' = SubSeq(buf, next, last)
        /\ res' = last + 1 - next
  /\ pos' = 0
  /\ UNCHANGED <<slot, clients, received>>

BufferNext == \/ BufferAccept \/ BufferRecv \/ BufferClose
              \/ ScanIncomplete \/ ScanCommand

BufferSpec == BufferInit /\ [][BufferNext]_bufferVars
-------------------------------------------------------------------------------
(* PROPERTIES                                                              *)

(* What is left of the line that the end of line at e completes once as    *)
(* many bytes as the buffer has room for have been dropped as often as     *)
(* they came together.                                                     *)
RestTo(s, e) ==
  LET begin == Max({0} \cup {d \in 1..(e - 1) : s[d] = Eol})
  IN SubSeq(s, e - ((e - 1 - begin) % Room), e - 1)

Ended(s) == {e \in DOMAIN s : s[e] = Eol /\ RestTo(s, e) # <<>>}
Told(s) == {i \in DOMAIN s : s[i] # <<>>}

(* However the bytes of a client were cut into segments, whatever came     *)
(* over the same slot before, the commands are its lines, in their order,  *)
(* none twice and none in part; of a line that is longer than the buffer   *)
(* the command is the rest that the dropping leaves.  Empty commands are   *)
(* not counted: an end of line at the beginning of a segment makes one     *)
(* more, the second byte of a CR LF that was cut in two, for example.      *)
CommandsAreLines ==
  slot = "recv" =>
    \E told \in [Ended(received) -> Told(commands)] :
      /\ \A i \in Told(commands) : \E e \in Ended(received) : told[e] = i
      /\ \A d, e \in Ended(received) : d < e => told[d] < told[e]
      /\ \A e \in Ended(received) :
           commands[told[e]] = RestTo(received, e)

(* recv() is always called with room for a byte: without, it would return  *)
(* 0, and process_conn() would take the client for gone and close the      *)
(* connection in the middle of a command.  And what is in the buffer never *)
(* goes beyond it, whatever was left of earlier segments.                  *)
RoomToReceive ==
  /\ slot = "recv" => pos < Room /\ res = 0
  /\ slot = "scan" => pos + res <= Room /\ Len(buf) <= Room
=============================================================================
