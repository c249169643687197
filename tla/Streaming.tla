------------------------------ MODULE Streaming ------------------------------
(***************************************************************************)
(* How content is given out: the stream of an object or of one of its      *)
(* revisions, whole or a range of it, and the zip of several objects.      *)
(*                                                                         *)
(* Content is encrypted with AES in counter mode.  Block n of the content  *)
(* is combined with the cipher of the initial counter plus n, so a         *)
(* download can begin in the middle: it opens the ciphertext at the block  *)
(* the range begins in, adds the blocks skipped to the counter, drops what *)
(* the block has before the range, and copies the rest.  A byte of content *)
(* is its position; a byte of ciphertext is that position with the counter *)
(* and the place in the block it was encrypted with, and a byte decrypted  *)
(* with another counter is Garbage.                                        *)
(*                                                                         *)
(* Status and headers go out before the ciphertext is opened.  A zip is    *)
(* written while the objects are fetched one by one, in the order Go's map *)
(* gives them, and other requests change, trash and withdraw them.         *)
(***************************************************************************)
EXTENDS Integers, FiniteSets, Sequences, SequencesExt, FiniteSetsExt

CONSTANTS BlockSize,   \* aes.BlockSize
          Base,        \* the values of a byte of the counter
          IVLen,       \* the bytes of the counter
          Zeros,       \* how many of its last bytes CreateIV leaves zero
          Objs,        \* objects
          Revisions,   \* the revisions each begins with: sizes and counters
          NewRevision, \* a revision another request may store
          Named,       \* the name of each object: its base and suffixes
          Ranges,      \* values of the Range header
          Portion,     \* the classification of each object
          MaxRequests, \* bound on the downloads and zips
          MaxChanges   \* bound on what other requests change

Garbage == -1
Open == -1                \* byteRange.Stop of a range without an end
NoRange == [start |-> 0, stop |-> Open, given |-> FALSE]

(* The values of n bytes. *)
Power[n \in 0 .. IVLen] == IF n = 0 THEN 1 ELSE Base * Power[n - 1]

(* A revision.  CreateIV leaves the last bytes of a counter zero, and no     *)
(* content is longer than they can count: adjustIV drops a carry out of the  *)
(* byte before them.                                                         *)
Stored == {rev \in [size : Nat, iv : [1 .. IVLen -> 0 .. Base - 1]] :
              /\ rev.size <= BlockSize * Power[Zeros]
              /\ \A i \in IVLen - Zeros + 1 .. IVLen : rev.iv[i] = 0}

(* The numbers of a Range header are what strconv makes of the text around   *)
(* its "-".                                                                  *)
ASSUME StreamingAssumption ==
    /\ {BlockSize, Base, IVLen, Zeros} \subseteq Nat \ {0} /\ Zeros < IVLen
    /\ Objs # {}
    /\ NewRevision \in Stored
    /\ \A o \in Objs : Revisions[o] \in Seq(Stored) \ {<<>>}
    /\ \A o \in Objs : Len(Named[o]) \in Nat /\ Named[o] = [i \in 1 .. Len(Named[o]) |-> Named[o][i]]
    /\ Ranges \subseteq [start : Nat, stop : Nat \cup {Open}, given : BOOLEAN]
    /\ \A range \in Ranges : range.given \/ range = NoRange

VARIABLES row,   \* the objects in the database
          get,   \* a download under way
          zip,   \* a zip under way
          count  \* the requests and the changes so far

vars == <<row, get, zip, count>>
----------------------------------------------------------------------------
(* Counter mode *)

Value(iv) ==
    LET upTo[i \in 0 .. IVLen] == IF i = 0 THEN 0 ELSE upTo[i - 1] * Base + iv[i]
    IN  upTo[IVLen]
Counter(iv, block) == (Value(iv) + block) % Power[IVLen]

Cipher(iv, p) == [at |-> p, ctr |-> Counter(iv, p \div BlockSize), off |-> p % BlockSize]

(* The i-th byte from the end gets its part of what is left to be added, and *)
(* the byte before it the carry.                                             *)
AddByte(was, i) ==
    LET sum == (was.left % Base) + was.iv[IVLen - i + 1]
    IN  IF was.left = 0 THEN was
        ELSE [iv |-> [was.iv EXCEPT ![IVLen - i + 1] = sum % Base,
                                    ![IVLen - i] = (@ + (sum \div Base)) % Base],
              left |-> was.left \div Base]

(* The blocks skipped are added byte by byte, last byte first. *)
AdjustIV(iv, start) ==
    LET loop[i \in 0 .. IVLen - 1] ==
            IF i = 0 THEN [iv |-> iv, left |-> start \div BlockSize] ELSE AddByte(loop[i - 1], i)
    IN  loop[IVLen - 1].iv

(* The n-th byte read from a stream that begins at a block, with counter iv. *)
Decipher(c, iv, n) ==
    IF c.ctr = Counter(iv, n \div BlockSize) /\ c.off = n % BlockSize THEN c.at ELSE Garbage
----------------------------------------------------------------------------
(* Downloads *)

Idle == [st |-> "idle", obj |-> CHOOSE o \in Objs : TRUE, rev |-> 0, range |-> NoRange, status |-> 0,
         length |-> 0, iv |-> <<>>, n |-> 0, sent |-> <<>>]

Readable(o) == ~row[o].deleted /\ row[o].access

(* Mutant: the range's last byte is not counted. *)
ContentLengthShort(size, range) ==
    LET stop == IF range.stop = Open THEN size - 1 ELSE range.stop
    IN  IF range.given THEN stop - range.start ELSE size

(* What the header announces. *)
ContentLength(size, range) ==
    LET stop == IF range.stop = Open THEN size - 1 ELSE range.stop
    IN  IF range.given THEN stop + 1 - range.start ELSE size

NewRequest == count.requests < MaxRequests /\ count' = [count EXCEPT !.requests = @ + 1]

(* A content of no bytes, or what the client has already, needs no stream.  *)
GetAndStreamFile(o, k, range, cached) ==
    LET rev == row[o].revs[k]
    IN  IF rev.size = 0 \/ cached
        THEN get' = [Idle EXCEPT !.st = "done", !.obj = o, !.rev = k,
                                 !.status = IF rev.size = 0 THEN 204 ELSE 304]
        ELSE get' = [Idle EXCEPT !.st = "headers", !.obj = o, !.rev = k, !.range = range,
                                 !.status = IF range.given THEN 206 ELSE 200,
                                 !.length = ContentLength(rev.size, range)]

GetObjectStream(o, range, cached) ==
    /\ get.st = "idle" /\ Readable(o)
    /\ GetAndStreamFile(o, Len(row[o].revs), range, cached)
    /\ NewRequest /\ UNCHANGED <<row, zip>>

(* The present object's state counts for a revision too. *)
GetObjectStreamForRevision(o, k, range, cached) ==
    /\ get.st = "idle" /\ Readable(o)
    /\ GetAndStreamFile(o, k, range, cached)
    /\ NewRequest /\ UNCHANGED <<row, zip>>

(* The ciphertext is opened at the first block of the range. *)
OpenCiphertext ==
    /\ get.st = "headers"
    /\ get' = [get EXCEPT !.st = "sending", !.iv = AdjustIV(row[get.obj].revs[get.rev].iv, get.range.start)]
    /\ UNCHANGED <<row, zip, count>>

(* Storage fails, before the first byte or after some; the status is out.   *)
DownloadFails ==
    /\ get.st \in {"headers", "sending"}
    /\ get' = [get EXCEPT !.st = "failed"]
    /\ UNCHANGED <<row, zip, count>>

(* The stop that adjustIV leaves of the range: less the blocks skipped.     *)
(* That of a range that stops on the byte before the block it starts in is  *)
(* -1 then, which is how a range without an end is marked.                  *)
StopLeft(range) ==
    IF range.stop = Open THEN Open ELSE range.stop - BlockSize * (range.start \div BlockSize)

(* Mutant: the range's last byte is left out. *)
RangeCopyShort(range, n) ==
    LET first == range.start % BlockSize
    IN  CASE n < first -> "skip"
          [] n >= first /\ (StopLeft(range) = Open \/ n < StopLeft(range)) -> "copy"
          [] OTHER -> "end"

(* What becomes of the n-th byte read, by the range adjustIV left. *)
RangeCopy(range, n) ==
    LET first == range.start % BlockSize
    IN  CASE n < first -> "skip"
          [] n >= first /\ (StopLeft(range) = Open \/ n <= StopLeft(range)) -> "copy"
          [] OTHER -> "end"

(* Mutant: a byte before the range is read over and over. *)
SendByteStuck ==
    /\ get.st = "sending"
    /\ LET rev == row[get.obj].revs[get.rev]
           p == BlockSize * (get.range.start \div BlockSize) + get.n
           what == IF p >= rev.size THEN "end" ELSE RangeCopy(get.range, get.n)
       IN  get' = [get EXCEPT
                    !.st = IF what = "end" THEN "done" ELSE @,
                    !.n = IF what = "copy" THEN @ + 1 ELSE @,
                    !.sent = IF what = "copy" THEN Append(@, Decipher(Cipher(rev.iv, p), get.iv, get.n)) ELSE @]
    /\ UNCHANGED <<row, zip, count>>

(* DoCipherByReaderWriter, a byte at a time. *)
SendByte ==
    /\ get.st = "sending"
    /\ LET rev == row[get.obj].revs[get.rev]
           p == BlockSize * (get.range.start \div BlockSize) + get.n
           what == IF p >= rev.size THEN "end" ELSE RangeCopy(get.range, get.n)
       IN  get' = [get EXCEPT
                    !.st = IF what = "end" THEN "done" ELSE @,
                    !.n = IF what = "end" THEN @ ELSE @ + 1,
                    !.sent = IF what = "copy" THEN Append(@, Decipher(Cipher(rev.iv, p), get.iv, get.n)) ELSE @]
    /\ UNCHANGED <<row, zip, count>>

EndDownload == get.st \in {"done", "failed"} /\ get' = Idle /\ UNCHANGED <<row, zip, count>>
----------------------------------------------------------------------------
(* Zips *)

ManifestName == <<"classification_manifest.txt">>
NoZip == [st |-> "idle", todo |-> {}, asked |-> {}, used |-> {ManifestName}, obj |-> CHOOSE o \in Objs : TRUE,
          name |-> <<>>, files |-> <<>>, manifest |-> <<>>, rollup |-> {}, denied |-> {}]

(* Mutant: the first suffix is taken to be free. *)
ZipSuggestFirst(used, name) == IF name \in used THEN Append(name, 1) ELSE name

(* A name that is used gets a number, the first that makes it unused. *)
ZipSuggestName(used, name) ==
    IF name \in used THEN Append(name, Min({i \in 1..(Cardinality(used) + 1) : Append(name, i) \notin used}))
    ELSE name

PostZip(ids) ==
    /\ zip.st = "idle"
    /\ zip' = [NoZip EXCEPT !.st = "fetch", !.todo = ids, !.asked = ids]
    /\ NewRequest /\ UNCHANGED <<row, get>>

(* Mutant: a file is put in the manifest before access is looked at. *)
ZipFetchListed(o) ==
    /\ zip.st = "fetch" /\ o \in zip.todo
    /\ LET name == ZipSuggestName(zip.used, Named[o])
           has == Last(row[o].revs).size > 0
       IN  zip' = [zip EXCEPT !.todo = @ \ {o}, !.used = @ \cup {name}, !.obj = o, !.name = name,
                              !.st = IF has /\ Readable(o) THEN "write" ELSE "fetch",
                              !.manifest = IF has THEN Append(@, name) ELSE @]
    /\ UNCHANGED <<row, get, count>>

(* Every object fetched gets a name; one without content, or that the user  *)
(* may not read by now, is left out.  So is one that AAC gives no answer    *)
(* about: any error of its is taken for "no access" (denied names these).   *)
ZipFetch(o) ==
    /\ zip.st = "fetch" /\ o \in zip.todo
    /\ \E answered \in BOOLEAN :
       LET name == ZipSuggestName(zip.used, Named[o])
           in == Last(row[o].revs).size > 0 /\ Readable(o) /\ answered
       IN  zip' = [zip EXCEPT !.todo = @ \ {o}, !.used = @ \cup {name}, !.obj = o, !.name = name,
                              !.st = IF in THEN "write" ELSE "fetch",
                              !.manifest = IF in THEN Append(@, name) ELSE @,
                              !.denied = IF answered THEN @ ELSE @ \cup {o}]
    /\ UNCHANGED <<row, get, count>>

(* An error while the content is copied is not looked at: the file is cut   *)
(* short in the archive, and the zip goes on.                               *)
ZipWriteFile ==
    /\ zip.st = "write"
    /\ \E whole \in BOOLEAN :
          zip' = [zip EXCEPT !.st = "fetch", !.rollup = @ \cup {Portion[zip.obj]},
                             !.files = Append(@, [obj |-> zip.obj, name |-> zip.name, whole |-> whole])]
    /\ UNCHANGED <<row, get, count>>

(* An object is not found, its content cannot be opened, or the roll-up     *)
(* fails: the request ends with an error, whatever was written.             *)
ZipFails ==
    /\ zip.st \in {"fetch", "write"}
    /\ zip' = [zip EXCEPT !.st = "failed"]
    /\ UNCHANGED <<row, get, count>>

(* The manifest is written last; without a file there is nothing to zip.    *)
ZipWriteManifest ==
    /\ zip.st = "fetch" /\ zip.todo = {}
    /\ zip' = [zip EXCEPT !.st = IF zip.rollup = {} THEN "failed" ELSE "done"]
    /\ UNCHANGED <<row, get, count>>

EndZip == zip.st \in {"done", "failed"} /\ zip' = NoZip /\ UNCHANGED <<row, get, count>>
----------------------------------------------------------------------------
(* What other requests do meanwhile. *)

Change ==
    /\ count.changes < MaxChanges /\ count' = [count EXCEPT !.changes = @ + 1]
    /\ UNCHANGED <<get, zip>>

StoreRevision(o) ==
    /\ ~row[o].deleted /\ Len(row[o].revs) = Len(Revisions[o])
    /\ row' = [row EXCEPT ![o].revs = Append(@, NewRevision)]
    /\ Change

TrashObject(o) == ~row[o].deleted /\ row' = [row EXCEPT ![o].deleted = TRUE] /\ Change
Withdraw(o) == row[o].access /\ row' = [row EXCEPT ![o].access = FALSE] /\ Change
----------------------------------------------------------------------------
Init ==
    /\ row = [o \in Objs |-> [revs |-> Revisions[o], deleted |-> FALSE, access |-> TRUE]]
    /\ get = Idle /\ zip = NoZip /\ count = [requests |-> 0, changes |-> 0]

Next ==
    \/ \E o \in Objs, range \in Ranges, cached \in BOOLEAN :
          \/ GetObjectStream(o, range, cached)
          \/ \E k \in DOMAIN row[o].revs : GetObjectStreamForRevision(o, k, range, cached)
    \/ OpenCiphertext \/ SendByte \/ DownloadFails \/ EndDownload
    \/ \E ids \in (SUBSET Objs) \ {{}} : PostZip(ids)
    \/ ZipWriteFile \/ ZipFails \/ ZipWriteManifest \/ EndZip
    \/ \E o \in Objs : ZipFetch(o) \/ StoreRevision(o) \/ TrashObject(o) \/ Withdraw(o)

(* A download that is sending goes on sending: io.Copy reads until the end   *)
(* or an error.                                                              *)
Spec == Init /\ [][Next]_vars /\ WF_vars(OpenCiphertext \/ SendByte)
----------------------------------------------------------------------------
(* The bytes of the content that a range asks for. *)
Wanted(size, range) ==
    LET stop == IF range.stop = Open \/ range.stop >= size THEN size - 1 ELSE range.stop
    IN  [i \in 1..(stop + 1 - range.start) |-> range.start + i - 1]

(* What the server makes of a range: one that stops on the byte before the   *)
(* block it starts in (with blocks of 16: 20-15) is taken for one without an *)
(* end.                                                                      *)
Taken(range) ==
    IF range.stop + 1 = BlockSize * (range.start \div BlockSize) THEN [range EXCEPT !.stop = Open] ELSE range

(* Whatever block a range begins in, a download sends the bytes asked for,   *)
(* decrypted with the right counters, in order and from the first: never     *)
(* more, and all of them unless storage failed.  A range that stops before   *)
(* it starts asks for nothing; the one exception is where Taken says so: the *)
(* rest of the content is sent.                                              *)
RangeExact ==
    get.st \in {"sending", "done", "failed"} /\ get.status \in {200, 206} =>
        LET wanted == Wanted(row[get.obj].revs[get.rev].size, Taken(get.range))
        IN  /\ IsPrefix(get.sent, wanted)
            /\ get.st = "done" => get.sent = wanted

(* The length announced is what is sent, for a range inside the content.     *)
LengthHonest ==
    LET size == row[get.obj].revs[get.rev].size
        inside == get.range.start < size /\ get.range.stop < size
                  /\ (get.range.stop = Open \/ get.range.start <= get.range.stop)
    IN  get.st = "done" /\ get.status \in {200, 206} /\ inside => get.length = Len(get.sent)

(* No two files of an archive have the same name, and none that of the       *)
(* manifest, though objects share names and have names that look numbered.   *)
ZipNamesDistinct ==
    /\ \A i, j \in DOMAIN zip.files : i # j => zip.files[i].name # zip.files[j].name
    /\ \A i \in DOMAIN zip.files : zip.files[i].name # ManifestName

(* A zip that succeeds lists in its manifest the files it has and no others, *)
(* with the classification of all of them, and leaves out no object asked    *)
(* for that could be read throughout, but those AAC gave no answer about:    *)
(* they are missing, and nothing tells the client.                           *)
ZipComplete ==
    zip.st = "done" =>
        LET in == {zip.files[i].obj : i \in DOMAIN zip.files}
        IN  /\ zip.manifest = [i \in DOMAIN zip.files |-> zip.files[i].name]
            /\ zip.rollup = {Portion[o] : o \in in}
            /\ {o \in zip.asked : Readable(o) /\ \A i \in DOMAIN row[o].revs : row[o].revs[i].size > 0} \ zip.denied
                 \subseteq in

(* A download ends: with its bytes, or because storage failed.               *)
DownloadsEnd == get.st = "sending" ~> get.st \in {"done", "failed"}
=============================================================================
