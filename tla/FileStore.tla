----------------------------- MODULE FileStore ------------------------------
(***************************************************************************)
(* File_store: a file of records, each the size of a message in two bytes, *)
(* most significant first, and the message; and in memory the offset at    *)
(* which each record begins.  Messages have numbers from 1.  The system    *)
(* calls may fail, a write after any part of its bytes; the process may be *)
(* killed between and inside calls; a loss of power may take what was not  *)
(* synced, from some byte on.                                              *)
(*                                                                         *)
(* File positions are offsets into the sequence "file", from 0.            *)
(***************************************************************************)
EXTENDS Naturals, Sequences, SequencesExt

CONSTANTS
  B,          \* the values of a byte: 256 in the code
  Messages,   \* the messages to add: sequences of bytes
  Reopens,    \* whether a File_store that was open before is opened again
  MaxFile,    \* bound: bytes in the file before the last addition
  MaxRecords, \* bound: additions counted by a File_store
  NoAnswer, Failure

Bytes == 0..(B - 1)

\* A size needs two bytes: a longer message would have its size taken % B * B.
ASSUME FileStoreAssumption ==
  /\ B \in Nat \ {0, 1} /\ MaxFile \in Nat /\ MaxRecords \in Nat /\ Reopens \in BOOLEAN
  /\ \A m \in Messages : m \in Seq(Bytes) /\ Len(m) < B * B
  /\ NoAnswer \notin [first : Nat, last : Nat, messages : Seq(Seq(Bytes)) \cup {Failure}]

VARIABLES
  file,       \* the bytes of the file
  synced,     \* how many of them outlive a loss of power
  opened,     \* whether fd_ is a file descriptor
  offsets,    \* offsets_
  \* History, never read by the code:
  added,      \* the messages added before anything failed
  ends,       \* where their records end in the file
  durable,    \* how many of them were synced
  damaged,    \* an addition failed, or was interrupted
  unread,     \* it is open, and open() has not read what the file holds
  answer      \* the range asked for by the last call of get(), and the result

vars == <<file, synced, opened, offsets, added, ends, durable, damaged, unread, answer>>

history == <<added, ends, durable, damaged>>

Init ==
  /\ file = <<>> /\ synced = 0 /\ opened = FALSE /\ offsets = <<>>
  /\ added = <<>> /\ ends = <<>> /\ durable = 0 /\ damaged = FALSE
  /\ unread = FALSE /\ answer = NoAnswer

-----------------------------------------------------------------------------
\* Records.

htons(size) == <<(size \div B) % B, size % B>>

ntohs(bytes) == bytes[1] * B + bytes[2]

record(m) == htons(Len(m)) \o m

\* What is read at a position: two bytes and as many as they say, unless the
\* file ends before.
has_size(pos) == pos + 2 <= Len(file)

size_at(pos) == IF has_size(pos) THEN ntohs(SubSeq(file, pos + 1, pos + 2)) ELSE 0

has_message(pos) == has_size(pos) /\ pos + 2 + size_at(pos) <= Len(file)

message_at(pos) == SubSeq(file, pos + 3, pos + 2 + size_at(pos))

after(pos) == pos + 2 + size_at(pos)

\* set_offsets(), from a position on.  A message that is cut off counts, a
\* size that is cut off does not.
offsets_from[pos \in Nat] ==
  IF has_size(pos) THEN <<pos>> \o offsets_from[after(pos)] ELSE <<>>

next_sequence_number == Len(offsets) + 1

-----------------------------------------------------------------------------
\* open(), close(), and the end of the File_store.

\* Faulty: what the file holds already is not counted.
found_nothing == <<>>

found == offsets_from[0]

\* offsets_ is not cleared: it grows by what set_offsets() finds.
Open ==
  /\ offsets = <<>> \/ Reopens
  /\ ~opened /\ opened' = TRUE
  /\ offsets' = offsets \o found
  /\ unread' = FALSE /\ answer' = NoAnswer
  /\ UNCHANGED <<file, synced, history>>

\* The first ::open(), for reading, fails and the second one succeeds: there is
\* no file yet, or the failure is ignored and what the file holds not counted.
OpenUnread ==
  /\ offsets = <<>> \/ Reopens
  /\ ~opened /\ opened' = TRUE
  /\ unread' = (offsets # found) /\ answer' = NoAnswer
  /\ UNCHANGED <<file, synced, offsets, history>>

\* Reading fails before the end of the file, or opening for writing does.
OpenFails ==
  /\ offsets = <<>> \/ Reopens
  /\ ~opened
  /\ \E read \in Prefixes(found) : offsets' = offsets \o read
  /\ answer' = NoAnswer
  /\ UNCHANGED <<file, synced, opened, unread, history>>

Close ==
  /\ opened /\ opened' = FALSE /\ unread' = FALSE /\ answer' = NoAnswer
  /\ UNCHANGED <<file, synced, offsets, history>>

\* The File_store is destroyed, with its process or without, and a new one
\* constructed.
New ==
  /\ opened' = FALSE /\ offsets' = <<>> /\ unread' = FALSE /\ answer' = NoAnswer
  /\ UNCHANGED <<file, synced, history>>

\* Where the record of the k-th message ends.
end(k) == IF k = 0 THEN 0 ELSE ends[k]

\* The file is cut somewhere behind what was synced, and k records are whole.
PowerLoss ==
  /\ \E n \in synced..Len(file), k \in 0..Len(added) :
       /\ end(k) <= n /\ (k < Len(added) => n < end(k + 1))
       /\ file' = SubSeq(file, 1, n)
       /\ added' = SubSeq(added, 1, k) /\ ends' = SubSeq(ends, 1, k)
       /\ damaged' = (damaged \/ n # end(k))
  /\ opened' = FALSE /\ offsets' = <<>> /\ unread' = FALSE /\ answer' = NoAnswer
  /\ UNCHANGED <<synced, durable>>

-----------------------------------------------------------------------------
\* add(), get() and sync().

\* Faulty: the record is written where reading begins.
add_position_start == 0

\* lseek(fd_, 0, SEEK_END)
add_position == Len(file)

written(pos, bytes) ==
  SubSeq(file, 1, pos) \o bytes \o SubSeq(file, pos + Len(bytes) + 1, Len(file))

Add(m) ==
  /\ opened /\ Len(file) <= MaxFile /\ Len(offsets) < MaxRecords
  /\ offsets' = Append(offsets, add_position)
  /\ file' = written(add_position, record(m))
  /\ added' = IF damaged THEN added ELSE Append(added, m)
  /\ ends' = IF damaged THEN ends ELSE Append(ends, Len(file'))
  /\ answer' = NoAnswer
  /\ UNCHANGED <<synced, opened, durable, damaged, unread>>

\* One of the two writes fails, with some bytes of the record in the file: the
\* offset stays.
AddFails(m) ==
  /\ opened /\ Len(file) <= MaxFile /\ Len(offsets) < MaxRecords
  /\ \E part \in Prefixes(record(m)) \ {record(m)} : file' = written(add_position, part)
  /\ offsets' = Append(offsets, add_position)
  /\ damaged' = TRUE /\ answer' = NoAnswer
  /\ UNCHANGED <<synced, opened, added, ends, durable, unread>>

\* The process is killed inside add().
AddInterrupted(m) ==
  /\ opened /\ Len(file) <= MaxFile /\ Len(offsets) < MaxRecords
  /\ \E part \in Prefixes(record(m)) \ {record(m), <<>>} : file' = written(add_position, part)
  /\ damaged' = TRUE /\ answer' = NoAnswer
  /\ opened' = FALSE /\ offsets' = <<>> /\ unread' = FALSE
  /\ UNCHANGED <<synced, added, ends, durable>>

\* Faulty: reading goes on where the previous message began.
read_position_stuck(first) == [k \in Nat |-> offsets[first]]

\* Where the k-th message after the first is read: get() seeks only once.
read_position(first) ==
  LET pos[k \in Nat] == IF k = 0 THEN offsets[first] ELSE after(pos[k - 1])
  IN  pos

get(first, last) ==
  LET pos == read_position(first)
  IN  IF /\ opened /\ first \in 1..Len(offsets) /\ last \in first..Len(offsets)
         /\ \A k \in 0..(last - first) : has_message(pos[k])
      THEN [k \in 1..(last - first + 1) |-> message_at(pos[k - 1])]
      ELSE Failure

\* Reading may fail as well.  The ranges: one beyond what there is, at most.
Get ==
  /\ \E first, last \in 0..(Len(offsets) + 1) : \E messages \in {get(first, last), Failure} :
       answer' = [first |-> first, last |-> last, messages |-> messages]
  /\ UNCHANGED <<file, synced, opened, offsets, unread, history>>

Sync ==
  /\ opened /\ synced' = Len(file) /\ durable' = Len(added) /\ answer' = NoAnswer
  /\ UNCHANGED <<file, opened, offsets, added, ends, damaged, unread>>

Next ==
  \/ Open \/ OpenUnread \/ OpenFails \/ Close \/ New \/ PowerLoss \/ Get \/ Sync
  \/ \E m \in Messages : Add(m) \/ AddFails(m) \/ AddInterrupted(m)

Spec == Init /\ [][Next]_vars

-----------------------------------------------------------------------------
\* An open File_store reads back, in any range, the messages that were added
\* before anything failed, whichever process added them, whatever was torn
\* after them and whatever was added after that.  The exception is a
\* File_store whose open() ignored that it could not read the file; what is
\* added with that one is read back by the next.
ReadBack ==
  opened /\ ~unread => \A first \in 1..Len(added) : \A last \in first..Len(added) :
              get(first, last) = SubSeq(added, first, last)

\* The next sequence number, with which the ports of a restarted server go on,
\* is one more than the number of messages in the file, with the same exception.
CountsMessages == opened /\ ~unread /\ ~damaged => next_sequence_number = Len(added) + 1

\* What a File_store does is what MessageLog allows: in particular no crash
\* takes what was synced, and no range is answered with anything else unless
\* the file was not read.
TheLog == INSTANCE MessageLog WITH log <- added

ImplementsLog == TheLog!Spec

=============================================================================
