---------------------------- MODULE ProfileCodec ----------------------------
(***************************************************************************)
(* The messages in which two devices hand profiles over (profile_import.go *)
(* of libbox), from the encoder to the decoder.                            *)
(*                                                                         *)
(* Encoded data is a sequence of tokens, one for each number, string or    *)
(* flag that is written, and a configuration is as many as its size; the   *)
(* length of data counts tokens.  A message goes as it is, or in a chunk   *)
(* that its length precedes.  Counts and lengths are 16 bits wide in the   *)
(* code and wrap at Wrap here.                                             *)
(***************************************************************************)
EXTENDS Integers, Sequences, SequencesExt

CONSTANTS
  Wrap,        \* 65536 in the code
  Lists,       \* numbers of profiles in the lists that are sent
  Sizes,       \* of the configurations that are sent
  MaxMessages  \* bound

VARIABLES
  chunked,     \* messages are sent in chunks
  sent,        \* the messages
  wire,        \* what is on its way, one record for each message
  received,    \* what was decoded: a message, or an error
  profiles,    \* the profiles of the ProfileDecoder, which serves all lists
  listed,      \* observability: the profiles of the lists that were taken from the wire
  torn         \* the connection broke, or a length was too small for its data

vars == <<chunked, sent, wire, received, profiles, listed, torn>>

\* A profile is its number; names and times are not told apart, nor are configurations of
\* one size.
Profiles(n) == [i \in 1 .. n |-> i]
Types  == {"local", "icloud", "remote"}
NoTime == "zero"

Contents == [kind : {"content"}, version : {0, 1}, type : Types, size : Sizes]
Messages == {[kind |-> "error"], [kind |-> "request"]} \cup Contents
              \cup [kind : {"list"}, size : Lists]

\* What a decoder returns for a content message
Read(type, size, path, update, interval) ==
  [kind |-> "content", type |-> type, size |-> size,
   path |-> path, update |-> update, interval |-> interval]
Failure == [kind |-> "failure"]

Init ==
  /\ chunked \in BOOLEAN
  /\ sent = <<>> /\ wire = <<>> /\ received = <<>> /\ profiles = <<>> /\ listed = <<>>
  /\ torn = FALSE

-----------------------------------------------------------------------------
(* Encoding                                                                *)

BugWritesPath(type) == type = "remote"   \* iCloud profiles have one too

WritesPath(type) == type # "local"
WritesUpdates(type) == type = "remote"

\* ErrorMessage.Encode, ProfileContentRequest.Encode: the type and one value
EncodeValue(kind) == <<kind, "value">>

\* ProfileEncoder.Encode: the count, then the number, name and type of each profile
EncodeList(list) ==
  <<"list", Len(list) % Wrap>> \o
    [j \in 1 .. 3 * Len(list) |-> IF j % 3 = 1 THEN list[(j + 2) \div 3]
                                 ELSE IF j % 3 = 2 THEN "name" ELSE "type"]

\* ProfileContent.Encode: version, name, type and configuration, which its size precedes
EncodeHead(message) ==
  <<"content", message.version, "name", message.type, message.size>>
    \o [i \in 1 .. message.size |-> "part"]

\* and what follows them in version 1
EncodeFields(type) ==
  (IF WritesPath(type) THEN <<"path">> ELSE <<>>)
    \o (IF WritesUpdates(type) THEN <<"update", "interval", "updated">> ELSE <<>>)

\* Older programs send no interval, and the update flag of iCloud profiles too
EncodeOldFields(type) == IF type # "local" THEN <<"path", "update", "updated">> ELSE <<>>

Encode(message) ==
  IF message.kind = "list" THEN EncodeList(Profiles(message.size))
  ELSE IF message.kind # "content" THEN EncodeValue(message.kind)
  ELSE EncodeHead(message) \o (IF message.version = 1 THEN EncodeFields(message.type)
                               ELSE EncodeOldFields(message.type))

\* EncodeChunkedMessage, DecodeLengthChunk
Chunk(data) == [length |-> Len(data) % Wrap, data |-> data]

-----------------------------------------------------------------------------
(* Decoding: data that ends too early is an error                          *)

\* ProfileDecoder.Decode appends each profile that it could read
Readable(data) == LET whole == (Len(data) - 2) \div 3
                  IN  IF data[2] <= whole THEN data[2] ELSE whole
ListIsWhole(data) == Len(data) >= 2 /\ Readable(data) = data[2]
ListOf(data) == IF Len(data) < 2 THEN <<>>
                ELSE [i \in 1 .. Readable(data) |-> data[3 * i]]

ReadsPath(type) == type # "local"
ReadsUpdates(type, version) == type = "remote" \/ (version = 0 /\ type # "local")

\* The fields that follow the configuration, in their order; a field that is not read
\* is zero.
Fields(type, version) ==
  (IF ReadsPath(type) THEN <<"path">> ELSE <<>>)
    \o (IF ReadsUpdates(type, version)
        THEN IF version >= 1 THEN <<"update", "interval", "updated">> ELSE <<"update", "updated">>
        ELSE <<>>)

\* DecodeProfileContent.  What stands in the place of a field is taken for it.
DecodeContent(data) ==
  IF Len(data) < 5 \/ Len(data) < 5 + data[5] + Len(Fields(data[4], data[2])) THEN Failure
  ELSE LET fields == Fields(data[4], data[2])
           Value(field) ==
             IF Contains(fields, field)
             THEN data[5 + data[5] + CHOOSE i \in DOMAIN fields : fields[i] = field]
             ELSE NoTime
       IN  Read(data[4], data[5], Value("path"), Value("update"), Value("interval"))

\* DecodeErrorMessage, DecodeProfileContentRequest
DecodeValue(data) == IF Len(data) < 2 THEN Failure ELSE [kind |-> data[1]]

Decode(data) ==
  IF data = <<>> THEN Failure
  ELSE IF data[1] = "list" THEN IF ListIsWhole(data) THEN [kind |-> "list"] ELSE Failure
  ELSE IF data[1] = "content" THEN DecodeContent(data)
  ELSE DecodeValue(data)

-----------------------------------------------------------------------------
Send(message) ==
  /\ ~torn /\ Len(sent) < MaxMessages
  /\ sent' = Append(sent, message)
  /\ wire' = Append(wire, Chunk(Encode(message)))
  /\ UNCHANGED <<chunked, received, profiles, listed, torn>>

\* The reader takes as many tokens as a chunk says, or what came of them; one that says too
\* few leaves the rest to be taken for the next length, and nothing that follows is looked
\* at here.
Receive ==
  LET chunk == Head(wire)
      size == IF chunked /\ chunk.length < Len(chunk.data) THEN chunk.length ELSE Len(chunk.data)
      data == SubSeq(chunk.data, 1, size)
      list == data # <<>> /\ data[1] = "list"
  IN
  /\ wire # <<>>
  /\ received' = Append(received, Decode(data))
  /\ profiles' = IF list THEN profiles \o ListOf(data) ELSE profiles
  /\ listed' = IF list THEN listed \o Profiles(sent[Len(received) + 1].size) ELSE listed
  /\ torn' = (torn \/ size # Len(chunk.data))
  /\ wire' = IF size # Len(chunk.data) THEN <<>> ELSE Tail(wire)
  /\ UNCHANGED <<chunked, sent>>

Cut(chunk, kept) == [length |-> chunk.length, data |-> SubSeq(chunk.data, 1, kept)]

\* The connection breaks anywhere within the last message: between the profiles of a list, or
\* within one; in a configuration, or among the fields behind it.  (What is lost of the
\* compressed data behind the last field is not looked at, and is no loss here.)
Break ==
  /\ ~torn /\ wire # <<>>
  /\ torn' = TRUE
  /\ \E kept \in 0 .. Len(Last(wire).data) - 1 :
       wire' = [wire EXCEPT ![Len(wire)] = Cut(@, kept)]
  /\ UNCHANGED <<chunked, sent, received, profiles, listed>>

Next == (\E message \in Messages : Send(message)) \/ Receive \/ Break

Spec == Init /\ [][Next]_vars

-----------------------------------------------------------------------------
(* Properties                                                              *)

\* What a message says to its receiver.  An iCloud profile has no update fields, but
\* from an older program it has the flag.
Says(message) ==
  IF message.kind # "content" THEN [kind |-> message.kind]
  ELSE Read(message.type, message.size,
            IF message.type = "local" THEN NoTime ELSE "path",
            IF message.type = "remote" \/ (message.type = "icloud" /\ message.version = 0)
            THEN "update" ELSE NoTime,
            IF message.type = "remote" /\ message.version = 1 THEN "interval" ELSE NoTime)

\* A message too large for its count or for the length of its chunk
TooLarge(message) ==
  \/ message.kind = "list" /\ message.size >= Wrap
  \/ chunked /\ Len(Encode(message)) >= Wrap

\* A message arrives as it was sent and in its place, whatever its version and type, or fails;
\* and it fails only if the connection broke in it or if it is too large for 16 bits: nothing
\* is ever read that was not sent.  One decoder that serves all lists ends up with all their
\* profiles, or, of a list that was cut, with the first ones, as long as no count or length
\* of what was received is above 16 bits.
RoundTrip ==
  /\ \A k \in DOMAIN received :
       \/ received[k] = Says(sent[k])
       \/ received[k] = Failure /\ (TooLarge(sent[k]) \/ (torn /\ k = Len(sent)))
  /\ (\A k \in DOMAIN received : ~TooLarge(sent[k])) =>
       (~torn => profiles = listed) /\ IsPrefix(profiles, listed)
=============================================================================
