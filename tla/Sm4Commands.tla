---------------------------- MODULE Sm4Commands ----------------------------
(***************************************************************************)
(* The commands RS_EncryptFile, RS_DecryptFile, RS_EncryptData and         *)
(* RS_DevryptData: a random key, and SM4 on the text chunk by chunk.  The  *)
(* page keeps the key of the answer and comes back with it.                *)
(*                                                                         *)
(* A text is a sequence of words, and a word takes the place of a byte of  *)
(* the code as well: a block has 4 of them instead of 16 bytes, a chunk    *)
(* Chunk of them instead of bsize = 128 bytes, a key 4 instead of 16.      *)
(* Hexadecimal text is left out: what is encoded is decoded.               *)
(***************************************************************************)
EXTENDS Sm4

CONSTANTS Chunk,       \* bsize
          MaxKeysize,  \* the largest key that randomString makes
          Keysizes,    \* values of the property keysize
          KeyChars,    \* what randomString draws from
          MaxLen,      \* the longest text that EncryptData takes
          Texts,       \* what pages encrypt
          Four,        \* the "special comment character"
          Behind       \* what memory may hold behind a string or an array

Zero == {}

ASSUME CommandsAssumption ==
    /\ Chunk \in Nat \ {0} /\ Chunk % 4 = 0
    /\ MaxKeysize \in Nat /\ Keysizes \subseteq Nat /\ MaxLen \in Nat
    /\ KeyChars \subseteq Word \ {Zero} /\ KeyChars # {}
    /\ Texts \subseteq Seq(Word)
    /\ Four \in Word
    /\ Behind \subseteq Word /\ Behind # {}

Paths == {"source", "sealed", "opened"}

VARIABLES
    keysize,  \* the property keysize
    disk,     \* the files that exist, with their contents
    sealed,   \* what the page last had encrypted, and the answer
    cmd       \* the command that runs, or ran last

vars == <<keysize, disk, sealed, cmd>>

\* in: what is left to read; out: the answer so far; failed: did a write
\* fail (the stream then takes no more); at: "dropped" when the constructor
\* threw, outside of execute.
NoCommand == [name |-> "none", to |-> "opened", sk |-> <<>>, in |-> <<>>, out |-> <<>>,
              failed |-> FALSE, at |-> "done"]
NotSealed == [kind |-> "none", text |-> <<>>, key |-> <<>>, bytes |-> <<>>, good |-> FALSE]

Idle == cmd.at \in {"done", "dropped"}

\* The disk of a user with a text, and the disk when a file is opened to be
\* written anew.
OneFile(text) == [path \in {"source"} |-> text]
Truncated(to) == [path \in DOMAIN disk \cup {to} |-> IF path = to THEN <<>> ELSE disk[path]]

Init ==
    /\ keysize \in Keysizes
    /\ \E text \in Texts : disk = OneFile(text)
    /\ sealed = NotSealed
    /\ cmd = NoCommand

\* randomString
RandomString(n) == [1..n -> KeyChars]

\* The 16 bytes that sm4_setkey reads: of a shorter key, what follows it in
\* the string's buffer, a zero first, and of a longer one the beginning.
KeyBytes(key) ==
    LET given == IF Len(key) < 4 THEN Append(key, Zero) ELSE key IN
    {x \in [1..4 -> KeyChars \cup Behind \cup {Zero}] :
        \A i \in 1..4 : i <= Len(given) => x[i] = given[i]}

Least(a, b) == IF a < b THEN a ELSE b
Drop(s, n)  == SubSeq(s, n + 1, Len(s))

\* read: cb words, over what the buffer was initialised with; and the chunk
\* that sm4_crypt_ecb makes of them (in a set, for TLC to evaluate it once).
Filled(buf, cb)  == [i \in 1..Chunk |-> IF i <= cb THEN cmd.in[i] ELSE buf[i]]
Crypted(buf, cb) == {sm4_crypt_ecb(cmd.sk, cb, rbuf, buf) : rbuf \in {Filled(buf, cb)}}
Zeros           == [i \in 1..Chunk |-> Zero]
Comment         == [Zeros EXCEPT ![1] = Four]

\* What << writes of an array: up to the first zero, or beyond its end.
CString(buf) ==
    IF \E i \in 1..Chunk : buf[i] = Zero
    THEN {SubSeq(buf, 1, n) : n \in {m \in 0..Chunk - 1 :
             buf[m + 1] = Zero /\ \A i \in 1..m : buf[i] # Zero}}
    ELSE {buf} \cup {Append(buf, x) : x \in Behind \ {Zero}}

\* eof is found by the read that comes up short.
Eof(cb) == cb < Chunk
NextAt(cb) == IF Eof(cb) THEN "done" ELSE "loop"

Reading(name) == cmd.at = "loop" /\ cmd.name = name
Cb            == Least(Chunk, Len(cmd.in))

-----------------------------------------------------------------------------
(***************************************************************************)
(* Files.                                                                  *)
(***************************************************************************)

\* The constructor opens the source, then the target, which is truncated
\* (and may be the source), then makes the key.
EncryptFile(to) ==
    /\ Idle
    /\ "source" \in DOMAIN disk
    /\ LET opened == Truncated(to) IN
       /\ disk' = opened
       /\ IF keysize > MaxKeysize
          THEN cmd' = [NoCommand EXCEPT !.name = "EncryptFile", !.at = "dropped"]
               /\ sealed' = IF to = "sealed" THEN NotSealed ELSE sealed
          ELSE \E key \in RandomString(keysize) : \E bytes \in KeyBytes(key) :
               /\ cmd' = [NoCommand EXCEPT !.name = "EncryptFile", !.to = to, !.at = "loop",
                             !.sk = sm4_setkey_enc(bytes), !.in = opened["source"]]
               /\ sealed' = [NotSealed EXCEPT !.key = key, !.text = opened["source"]]
    /\ UNCHANGED keysize

\* Mutant: a read that finds nothing ends the loop.
EncryptFileChunk_SkipsEmpty ==
    /\ Reading("EncryptFile")
    /\ \E wbuf \in Crypted(Comment, Cb), failed \in {cmd.failed, TRUE} :
          /\ disk' = IF failed \/ Cb = 0 THEN disk ELSE [disk EXCEPT ![cmd.to] = @ \o wbuf]
          /\ cmd' = [cmd EXCEPT !.in = Drop(@, Cb), !.failed = failed,
                                !.at = IF Cb = 0 THEN "done" ELSE "loop"]
          /\ sealed' = IF Cb = 0 /\ cmd.to = "sealed"
                       THEN [sealed EXCEPT !.kind = "file", !.good = ~failed]
                       ELSE sealed
    /\ UNCHANGED keysize

\* A chunk is written whole, whatever was read of it; that a write fails is
\* not noticed.
EncryptFileChunk ==
    /\ Reading("EncryptFile")
    /\ \E wbuf \in Crypted(Comment, Cb), failed \in {cmd.failed, TRUE} :
          /\ disk' = IF failed THEN disk ELSE [disk EXCEPT ![cmd.to] = @ \o wbuf]
          /\ cmd' = [cmd EXCEPT !.in = Drop(@, Cb), !.failed = failed, !.at = NextAt(Cb)]
          /\ sealed' = IF Eof(Cb) /\ cmd.to = "sealed"
                       THEN [sealed EXCEPT !.kind = "file", !.good = ~failed]
                       ELSE sealed
    /\ UNCHANGED keysize

\* The constructor opens the sealed file, then creates or truncates the
\* target, which may be the sealed file.
DecryptFile(to) ==
    /\ Idle
    /\ sealed.kind = "file"
    /\ LET opened == Truncated(to) IN
       \E bytes \in KeyBytes(sealed.key) :
          /\ disk' = opened
          /\ cmd' = [NoCommand EXCEPT !.name = "DecryptFile", !.to = to, !.at = "loop",
                        !.sk = sm4_setkey_dec(bytes), !.in = opened["sealed"]]
    /\ sealed' = IF to = "sealed" THEN NotSealed ELSE sealed
    /\ UNCHANGED keysize

\* Mutant: a read that finds nothing is tried again.
DecryptFileChunk_Again ==
    /\ Reading("DecryptFile")
    /\ \E wbuf \in Crypted(Zeros, Cb), failed \in {cmd.failed, Cb > 0} :
          /\ disk' = IF failed THEN disk
                     ELSE [disk EXCEPT ![cmd.to] = @ \o SubSeq(wbuf, 1, Cb)]
          /\ cmd' = [cmd EXCEPT !.in = Drop(@, Cb), !.failed = @ \/ failed,
                                !.at = IF Cb = 0 THEN "loop" ELSE NextAt(Cb)]
    /\ UNCHANGED <<keysize, sealed>>

\* A read that finds nothing writes nothing.
DecryptFileChunk ==
    /\ Reading("DecryptFile")
    /\ \E wbuf \in Crypted(Zeros, Cb), failed \in {cmd.failed, Cb > 0} :
          /\ disk' = IF failed THEN disk
                     ELSE [disk EXCEPT ![cmd.to] = @ \o SubSeq(wbuf, 1, Cb)]
          /\ cmd' = [cmd EXCEPT !.in = Drop(@, Cb), !.failed = @ \/ failed, !.at = NextAt(Cb)]
    /\ UNCHANGED <<keysize, sealed>>

\* A read fails: the stream is bad, and eof is never found.
ReadFails ==
    /\ cmd.at = "loop" /\ cmd.name \in {"EncryptFile", "DecryptFile"}
    /\ cmd' = [cmd EXCEPT !.at = "spinning"]
    /\ UNCHANGED <<keysize, disk, sealed>>

-----------------------------------------------------------------------------
(***************************************************************************)
(* Data.                                                                   *)
(***************************************************************************)

\* The constructor refuses an empty text, a long one, and a large key.
EncryptData(text) ==
    /\ Idle
    /\ IF text = <<>> \/ Len(text) > MaxLen \/ keysize > MaxKeysize
       THEN cmd' = [NoCommand EXCEPT !.name = "EncryptData", !.at = "dropped"]
            /\ sealed' = sealed
       ELSE \E key \in RandomString(keysize) : \E bytes \in KeyBytes(key) :
            /\ cmd' = [NoCommand EXCEPT !.name = "EncryptData", !.at = "loop",
                          !.sk = sm4_setkey_enc(bytes), !.in = text]
            /\ sealed' = [NotSealed EXCEPT !.key = key, !.text = text]
    /\ UNCHANGED <<keysize, disk>>

EncryptDataChunk ==
    /\ Reading("EncryptData")
    /\ \E wbuf \in Crypted(Zeros, Cb) : \E s \in CString(wbuf) :
          LET out == cmd.out \o s IN
          /\ cmd' = [cmd EXCEPT !.in = Drop(@, Cb), !.out = out, !.at = NextAt(Cb)]
          /\ sealed' = IF Eof(Cb)
                       THEN [sealed EXCEPT !.kind = "data", !.bytes = out, !.good = TRUE]
                       ELSE sealed
    /\ UNCHANGED <<keysize, disk>>

\* Mutant: the round keys are left in the order of encryption.
DevryptData_EncKey ==
    /\ Idle
    /\ sealed.kind = "data"
    /\ sealed.key # <<>> /\ sealed.bytes # <<>>
    /\ \E bytes \in KeyBytes(sealed.key) :
          cmd' = [NoCommand EXCEPT !.name = "DevryptData", !.at = "loop",
                     !.sk = sm4_setkey_enc(bytes), !.in = sealed.bytes]
    /\ UNCHANGED <<keysize, disk, sealed>>

\* The constructor refuses an empty key and empty data.
DevryptData ==
    /\ Idle
    /\ sealed.kind = "data"
    /\ IF sealed.key = <<>> \/ sealed.bytes = <<>>
       THEN cmd' = [NoCommand EXCEPT !.name = "DevryptData", !.at = "dropped"]
       ELSE \E bytes \in KeyBytes(sealed.key) :
            cmd' = [NoCommand EXCEPT !.name = "DevryptData", !.at = "loop",
                       !.sk = sm4_setkey_dec(bytes), !.in = sealed.bytes]
    /\ UNCHANGED <<keysize, disk, sealed>>

DevryptDataChunk ==
    /\ Reading("DevryptData")
    /\ \E wbuf \in Crypted(Zeros, Cb) :
       \E s \in IF Cb = 0 THEN {<<>>} ELSE CString(wbuf) :
          cmd' = [cmd EXCEPT !.in = Drop(@, Cb), !.out = @ \o s, !.at = NextAt(Cb)]
    /\ UNCHANGED <<keysize, disk, sealed>>

-----------------------------------------------------------------------------
Run == \/ EncryptFileChunk \/ DecryptFileChunk \/ EncryptDataChunk \/ DevryptDataChunk

\* The handlers, one request each.  The page names the files, and may name
\* one file twice; it brings the key and the text of the answer it got.
\* Bound: a text is sealed once, and its files go before the next.
Unsealed == sealed.kind = "none" /\ DOMAIN disk = {"source"}

EncryptFileRequestHandler == Unsealed /\ \E to \in {"source", "sealed"} : EncryptFile(to)
DecryptFileRequestHandler == \E to \in {"sealed", "opened"} : DecryptFile(to)
EncryptDataRequestHandler == Unsealed /\ EncryptData(disk["source"])
DevryptDataRequestHandler == DevryptData

NextText ==
    /\ Idle
    /\ \E text \in Texts : disk' = OneFile(text)
    /\ sealed' = NotSealed /\ cmd' = NoCommand
    /\ UNCHANGED keysize

Next == \/ Run
        \/ ReadFails
        \/ EncryptFileRequestHandler \/ DecryptFileRequestHandler
        \/ EncryptDataRequestHandler \/ DevryptDataRequestHandler
        \/ NextText
        \/ cmd.at = "spinning" /\ UNCHANGED vars

\* The thread that runs a command goes on with it; reads need not fail.
Fairness == WF_vars(Run)

Spec == Init /\ [][Next]_vars /\ Fairness

-----------------------------------------------------------------------------
(***************************************************************************)
(* Properties.                                                             *)
(***************************************************************************)

\* A file that was written without a failure comes back, followed by what
\* fills its last chunk: a file of n words has n div Chunk + 1 chunks, one
\* more than it needs when n is a multiple of Chunk.
FileComesBack ==
    cmd.name = "DecryptFile" /\ cmd.at = "done" /\ cmd.to = "opened"
    /\ ~cmd.failed /\ sealed.good /\ keysize >= 4
    => /\ SubSeq(disk["opened"], 1, Len(sealed.text)) = sealed.text
       /\ Len(disk["opened"]) = (Len(sealed.text) \div Chunk + 1) * Chunk

\* Data comes back when its blocks fall short of a chunk and neither they
\* nor their ciphertext hold a zero, where << stops.
DataComesBack ==
    LET n     == 4 * ((Len(sealed.text) + 3) \div 4)   \* the words of its blocks
        intact == /\ n < Chunk
                  /\ Len(sealed.bytes) = n
                  /\ \A i \in 1..Len(sealed.text) : sealed.text[i] # Zero
    IN cmd.name = "DevryptData" /\ cmd.at = "done" /\ keysize >= 4 /\ intact
       => cmd.out = sealed.text

\* A command ends, unless a read fails.
CommandEnds == cmd.at = "loop" ~> cmd.at \in {"done", "spinning"}
=============================================================================
