------------------------------ MODULE WebLink ------------------------------
(***************************************************************************)
(* One browser's connection to the WebSocketServer, byte by byte: the      *)
(* opening handshake, the frames that bring a PC's packages in, and the    *)
(* frames and short writes that carry the server's messages out.           *)
(*                                                                         *)
(* The server handles what one read returned on its own: nothing of a read *)
(* is kept for the next.  TCP may cut the browser's stream anywhere.       *)
(*                                                                         *)
(* A byte is less than twice its top bit (128 in the code), and an opcode  *)
(* less than OPCODES (16), so that the three forms of a frame's length fit *)
(* small instances.                                                        *)
(***************************************************************************)
EXTENDS Integers, Sequences, FiniteSetsExt, SequencesExt

CONSTANTS
  TOP, OPCODES,
  BitXor(_, _), \* exclusive or of two bytes
  CR, LF,       \* the only text bytes without the reserved bits of a frame
  BUFF_SIZE,    \* the buffer of the read loop, of a payload and of a frame to send
  Requests,     \* the opening requests a browser may make: [text, key]
  ClientFrames, \* the frames it may send afterwards: [fin, op, mask, payload]
  Lengths,      \* the sizes of the server's messages
  MaxUnits,     \* bound: the browser's frames and the server's messages together
  MaxBlurs      \* bound: reads that do not take whole, equal-headed frames

Base  == 2 * TOP
Byte  == 0 .. Base - 1
CLOSE == OPCODES \div 2         \* 8
Ext16 == TOP - 2                \* 126: the length is in the next two bytes
Ext64 == TOP - 1                \* 127: in the next eight

\* Printable characters have bits where a frame has its reserved ones.  The text that matters is
\* three of them: the name Sec-WebSocket-Key, the separator ": " and, in the reply, the digest.
Letter(i)  == OPCODES + i
KEYNAME    == Letter(1)
SEPARATOR  == Letter(2)
DIGEST     == Letter(3)

Blank == <<CR, LF, CR, LF>>

LineStart(text, i) == i = 1 \/ text[i - 1] = LF

\* RFC 6455, section 4.1: header lines, and an empty one at the end.  One of them has the key, and
\* none after it has another.  A CR is followed by an LF; a header may end in LF alone.
IsRequest(r) ==
  /\ r.text \in Seq(Byte \ {0}) /\ r.key \in Seq(Byte \ {0, CR, LF})
  /\ Len(r.text) > 4 /\ SubSeq(r.text, Len(r.text) - 3, Len(r.text)) = Blank
  /\ \A i \in 1 .. Len(r.text) - 2 : r.text[i] = CR => r.text[i + 1] = LF /\ ~LineStart(r.text, i)
  /\ \E i \in 1 .. Len(r.text) - 4 - Len(r.key) :
       /\ LineStart(r.text, i)
       /\ SubSeq(r.text, i, i + Len(r.key) + 2) = <<KEYNAME, SEPARATOR>> \o r.key \o <<CR>>
       /\ \A j \in i + 1 .. Len(r.text) - 1 :
            LineStart(r.text, j) => r.text[j] # KEYNAME \/ r.text[j + 1] # SEPARATOR

\* Section 5.2: a browser masks its frames, and uses the eight-byte length for none that can be read.
IsFrame(f) ==
  /\ f \in [fin : {0, 1}, op : 0 .. OPCODES - 1, mask : [1 .. 4 -> Byte], payload : Seq(Byte)]
  /\ Len(f.payload) < Base * Base

ASSUME WebLinkAssumption ==
  /\ OPCODES \in Nat /\ OPCODES >= 8 /\ TOP \in Nat /\ \E n \in 2 .. TOP : TOP = n * OPCODES
  /\ CR \in 1 .. OPCODES - 1 /\ LF \in 1 .. OPCODES - 1 /\ CR # LF
  /\ \A a, b \in Byte : BitXor(a, b) \in Byte /\ BitXor(BitXor(a, b), b) = a
  /\ BUFF_SIZE \in 7 .. Base * Base /\ Lengths \subseteq Nat /\ MaxUnits \in Nat /\ MaxBlurs \in Nat
  /\ (\A r \in Requests : IsRequest(r)) /\ \A f \in ClientFrames : IsFrame(f)

VARIABLES
  units,       \* what the browser has sent: its request, then frames
  taken,       \* how many bytes of it the server has read
  heard,       \* the bytes handed to parseDataPackage
  got,         \* the bytes the server's writes put on the socket
  messages,    \* the server's messages
  sent,        \* history: those of them whose frame was written whole
  message_map, \* MessageManager::m_message_map: this descriptor's queue, if it has one
  fate,        \* "running", or "undefined" once memory outside a buffer is touched
  blurs,       \* history: how many reads took more or less than whole, equal-headed frames
  torn         \* history: a frame was half written, or a reply was put between frames

vars == <<units, taken, heard, got, messages, sent, message_map, fate, blurs, torn>>

Zeros(n) == [i \in 1..n |-> 0]

-----------------------------------------------------------------------------
(* The browser: RFC 6455, section 5.                                         *)

Masked(bytes, mask) == [i \in DOMAIN bytes |-> BitXor(bytes[i], mask[((i - 1) % 4) + 1])]

FrameHead(fin, op, maskbit, len) ==
  LET first  == TOP * fin + op
      second == TOP * maskbit
  IN  IF len < Ext16 THEN <<first, second + len>>
      ELSE <<first, second + Ext16, len \div Base, len % Base>>

FrameBytes(f) == FrameHead(f.fin, f.op, 1, Len(f.payload)) \o f.mask \o Masked(f.payload, f.mask)

UnitBytes(u) == IF u.kind = "request" THEN u.text ELSE FrameBytes(u.frame)

\* What a browser makes of the bytes that follow the reply: it takes a frame, from r.at on, as long
\* as there is a whole one, and they are too few for more turns than bytes.
ReadFrame(bytes, r) ==
  LET left  == Len(bytes) - r.at
      short == left >= 2 /\ bytes[r.at + 2] < Ext16
      long  == left >= 4 /\ bytes[r.at + 2] = Ext16
      len   == IF long THEN Base * bytes[r.at + 3] + bytes[r.at + 4] ELSE bytes[r.at + 2]
      end   == r.at + (IF long THEN 4 ELSE 2) + len
  IN  IF (short \/ long) /\ end <= Len(bytes) /\ bytes[r.at + 1] = FrameHead(1, 2, 0, 0)[1]
      THEN [at |-> end, payloads |-> Append(r.payloads, SubSeq(bytes, end - len + 1, end))]
      ELSE r

Received(bytes) ==
  LET after[n \in 0 .. Len(bytes)] ==
        IF n = 0 THEN [at |-> 0, payloads |-> <<>>] ELSE ReadFrame(bytes, after[n - 1])
  IN  after[Len(bytes)].payloads

-----------------------------------------------------------------------------
(* Sending: packageMsgForWebsocket, writeMsg and the MessageManager.         *)

\* Mutant: a length of exactly 126 in the short form.
LengthFormLate(len) ==
  IF len < Ext64 THEN "short" ELSE IF len < Base * Base THEN "long" ELSE "endless"

LengthForm(len) ==
  IF len < Ext16 THEN "short" ELSE IF len < Base * Base THEN "long" ELSE "endless"

\* The loop that writes an eight-byte length, for (int i = 2; ++i; i < 10), does not stop at the
\* end of the frame's buffer.
packageMsgForWebsocket(payload) ==
  LET len == Len(payload)
      first == TOP + 2
  IN  CASE LengthForm(len) = "short" -> <<first, len>> \o payload
        [] LengthForm(len) = "long"  -> <<first, Ext16, len \div Base, len % Base>> \o payload
        [] OTHER -> <<first, Ext64>>

PackagingOverruns(payload) ==
  \/ LengthForm(Len(payload)) = "endless"
  \/ Len(packageMsgForWebsocket(payload)) > BUFF_SIZE

isMessageBufferExist == message_map # {}

\* A new MessageBuffer is filled and never put in the map.
insertMessageBuffer(bytes) == {Append(queue, bytes) : queue \in message_map}

\* The kernel takes n of the bytes; none is EAGAIN.  A write that fails is Relay's.
writeMsg(bytes, n) ==
  \/ /\ isMessageBufferExist
     /\ message_map' = insertMessageBuffer(bytes)
     /\ got' = got
  \/ /\ ~isMessageBufferExist
     /\ got' = got \o SubSeq(bytes, 1, n)
     /\ message_map' = IF n = Len(bytes) THEN message_map
                       ELSE insertMessageBuffer(SubSeq(bytes, n + 1, Len(bytes)))

-----------------------------------------------------------------------------
(* receiverMsg: a request, or frames.                                        *)

\* strstr and istringstream see a string: the buffer up to a NUL.
AsString(buf) ==
  LET nuls == {i \in DOMAIN buf : buf[i] = 0}
  IN  IF nuls = {} THEN buf ELSE SubSeq(buf, 1, Min(nuls) - 1)

LooksLikeRequest(buf) ==
  \E i \in 1 .. Len(AsString(buf)) - 3 : SubSeq(AsString(buf), i, i + 3) = Blank

\* Mutant: the CR at the end of a header stays part of its value.
HeaderWithCR(line) == line

\* do_handshake drops the CR of a header.
Header(line) == SubSeq(line, 1, Len(line) - 1)

\* Lines end at an LF, or with the text.
LineEnds(text)  == {i \in DOMAIN text : text[i] = LF}
Lines(text)     == {1} \cup {i + 1 : i \in LineEnds(text)}
LineAt(text, i) == SubSeq(text, i, Min({j \in LineEnds(text) : j >= i} \cup {Len(text) + 1}) - 1)

\* The headers are the lines that end in CR, up to the first that is a CR alone.  Of an empty line
\* the code reads the byte before the string's characters, which is zero in libstdc++: no header.
Headers(text) ==
  {i \in Lines(text) : /\ LineAt(text, i) # <<>> /\ Last(LineAt(text, i)) = CR
                       /\ \A j \in Lines(text) : j <= i => LineAt(text, j) # <<CR>>}

Colon(header) == Min({i \in DOMAIN header : header[i] = SEPARATOR} \cup {Len(header) + 1})

KeyHeaders(text) ==
  {i \in Headers(text) : LET header == Header(LineAt(text, i)) IN
     Colon(header) <= Len(header) /\ SubSeq(header, 1, Colon(header) - 1) = <<KEYNAME>>}

\* fields["Sec-WebSocket-Key"]: of several, the last; without one, empty.
ServerKey(text) ==
  IF KeyHeaders(text) = {} THEN <<>>
  ELSE LET header == Header(LineAt(text, Max(KeyHeaders(text))))
       IN  SubSeq(header, Colon(header) + 1, Len(header))

\* The reply that carries base64 of the sha1 of key and GUID.  Handshake has the conversion; here it
\* matters which key it was made from.
Reply(key) == <<DIGEST, SEPARATOR>> \o key \o Blank

\* The buffer of the read loop is zeroed before it is filled.
At(buf, i) == IF i < Len(buf) THEN buf[i + 1] ELSE 0
Bytes(buf, i, n) == [k \in 1..n |-> At(buf, i + k - 1)]

\* Mutant: the mask is taken for part of the payload's length.
AfterFrameShort(begin, header, len) == begin + header + len - 4

AfterFrame(begin, header, len) == begin + header + len

\* One turn of the loop of do_parsebuffer: s.begin is buffer_begin, s.payloads what was handed to
\* parseDataPackage, and s.inside whether it has kept inside its buffers.  fin is not looked at, the
\* mask is looked for behind the first header of the buffer whatever the frame's position, and the
\* loop over an eight-byte length does not end.
ParseFrame(buf, s) ==
  LET b1     == At(buf, s.begin)
      b2     == At(buf, s.begin + 1)
      rsv    == (b1 \div OPCODES) % (TOP \div OPCODES)
      isMask == b2 \div TOP = 1
      len7   == b2 % TOP
      len    == IF len7 = Ext16 THEN Base * At(buf, s.begin + 2) + At(buf, s.begin + 3) ELSE len7
      plain  == IF len7 = Ext16 THEN 4 ELSE 2
      header == plain + (IF isMask THEN 4 ELSE 0)
      wire   == Bytes(buf, s.begin + header, len)
      over    == s.begin + 2 >= Len(buf) \/ b1 % OPCODES = CLOSE \/ rsv # 0
      outside == len7 = Ext64 \/ s.begin + header + len > BUFF_SIZE
  IN  IF over THEN s ELSE IF outside THEN [s EXCEPT !.inside = FALSE]
      ELSE [begin    |-> AfterFrame(s.begin, header, len),
            payloads |-> s.payloads \o (IF isMask THEN Masked(wire, Bytes(buf, plain, 4)) ELSE wire),
            inside   |-> s.inside]

\* The loop ends before it has made as many turns as there are bytes.
do_parsebuffer(buf) ==
  LET after[n \in 0 .. Len(buf)] ==
        IF n = 0 THEN [begin |-> 0, payloads |-> <<>>, inside |-> TRUE]
        ELSE ParseFrame(buf, after[n - 1])
  IN  after[Len(buf)]

-----------------------------------------------------------------------------
(* Steps.                                                                    *)

StreamOf(us) == FlattenSeq([i \in DOMAIN us |-> UnitBytes(us[i])])
EndOf(i)     == Len(StreamOf(SubSeq(units, 1, i)))
Said(us)     == FlattenSeq([i \in DOMAIN us |->
                  IF us[i].kind = "frame" /\ us[i].frame.op # CLOSE THEN us[i].frame.payload
                  ELSE <<>>])
Opened == units # <<>> /\ IsPrefix(Reply(units[1].key), got)

\* A read is clear if it takes whole units, and if they are frames whose headers are equal in size
\* and mask and whose bytes do not look like a request.
Clear(from, to) ==
  LET within == {i \in DOMAIN units : EndOf(i - 1) >= from /\ EndOf(i) <= to}
      head(f) == <<FrameHead(1, 0, 0, Len(f.payload))[2] = Ext16, f.mask>>
  IN  /\ {from, to} \subseteq {EndOf(i) : i \in 0 .. Len(units)}
      /\ \A i, j \in within \ {1} : head(units[i].frame) = head(units[j].frame)
      /\ 1 \notin within => ~LooksLikeRequest(SubSeq(StreamOf(units), from + 1, to))

Init ==
  /\ units = <<>> /\ taken = 0 /\ heard = <<>> /\ got = <<>> /\ messages = <<>> /\ sent = <<>>
  /\ message_map = {} /\ fate = "running" /\ blurs = 0 /\ torn = FALSE

Ask ==
  /\ units = <<>>
  /\ \E r \in Requests : units' = <<[kind |-> "request", text |-> r.text, key |-> r.key]>>
  /\ UNCHANGED <<taken, heard, got, messages, sent, message_map, fate, blurs, torn>>

\* After a close frame the browser sends nothing more.
Room == Len(units) + Len(messages) <= MaxUnits
Closed == \E i \in 2 .. Len(units) : units[i].frame.op = CLOSE

SendFrame ==
  /\ Opened /\ Room /\ ~Closed
  /\ \E f \in ClientFrames : units' = Append(units, [kind |-> "frame", frame |-> f])
  /\ UNCHANGED <<taken, heard, got, messages, sent, message_map, fate, blurs, torn>>

\* processEpollEvents reads some of what was sent, and receiverMsg handles it.
Arrives(n) == SubSeq(StreamOf(units), taken + 1, taken + n)

Take(n) ==
  /\ fate = "running"
  /\ taken + n <= Len(StreamOf(units))
  /\ taken' = taken + n
  /\ blurs' = blurs + (IF Clear(taken, taken + n) THEN 0 ELSE 1)
  /\ blurs' <= MaxBlurs
  /\ UNCHANGED <<units, messages, sent>>

do_handshake(n) ==
  LET reply == Reply(ServerKey(AsString(Arrives(n))))
  IN  /\ Take(n)
      /\ LooksLikeRequest(Arrives(n))
      /\ \E k \in 0 .. Len(reply) :
           /\ writeMsg(reply, k)
           /\ torn' = (torn \/ k \in 1 .. Len(reply) - 1 \/ (k # 0 /\ got # <<>>))
      /\ UNCHANGED <<heard, fate>>

ParseFrames(n) ==
  /\ Take(n)
  /\ ~LooksLikeRequest(Arrives(n))
  /\ \E parsed \in {do_parsebuffer(Arrives(n))} :
       /\ heard' = heard \o parsed.payloads
       /\ fate' = IF parsed.inside THEN fate ELSE "undefined"
  /\ UNCHANGED <<got, message_map, torn>>

\* sendMsg and writeMsgToWebsocket: the server sends a PC, once it has registered, a message.
SendMessage ==
  /\ fate = "running" /\ Opened /\ Room
  /\ \E len \in Lengths :
       LET payload == [i \in 1..len |-> Len(messages) + 1]
           bytes   == packageMsgForWebsocket(payload)
       IN  /\ messages' = Append(messages, payload)
           /\ IF PackagingOverruns(payload)
              THEN /\ fate' = "undefined"
                   /\ UNCHANGED <<got, sent, message_map, torn>>
              ELSE \E k \in 0 .. Len(bytes) :
                   /\ writeMsg(bytes, k)
                   /\ sent' = IF k = Len(bytes) THEN Append(sent, payload) ELSE sent
                   /\ torn' = (torn \/ k \in 1 .. Len(bytes) - 1)
                   /\ fate' = fate
  /\ UNCHANGED <<units, taken, heard, blurs>>

Next ==
  \/ Ask \/ SendFrame \/ SendMessage
  \/ \E n \in 1 .. BUFF_SIZE - 1 : do_handshake(n) \/ ParseFrames(n)

Spec == Init /\ [][Next]_vars

-----------------------------------------------------------------------------
(* Properties.                                                               *)

\* A browser's frames reach parseDataPackage as they were said, in order and without loss, and
\* do_parsebuffer stays in its buffers, as long as every read is clear: neither TCP nor BUFF_SIZE
\* cuts a frame, frames read together have one header, and no masked bytes look like a request.
HeardAsSaid ==
  blurs = 0 =>
    /\ \E i \in 0 .. Len(units) :
         /\ taken = EndOf(i)
         /\ fate = "running" => heard = Said(SubSeq(units, 1, i))
    /\ fate = "undefined" =>
         \E m \in Range(messages) : Len(m) + 4 > BUFF_SIZE

\* The server answers the key it was sent, and nothing else: do_handshake's reply is the only text
\* on a connection whose reads are clear.
AnswersTheKey ==
  blurs = 0 /\ got # <<>> =>
    \/ IsPrefix(Reply(units[1].key), got) \/ IsPrefix(got, Reply(units[1].key))

\* The browser receives, in order, exactly the messages whose frame the socket took whole: as long
\* as none was taken in part, one that is lost in insertMessageBuffer costs no other.
ReceivedAsSent ==
  Opened /\ ~torn =>
    Received(SubSeq(got, Len(Reply(units[1].key)) + 1, Len(got))) = sent
=============================================================================
