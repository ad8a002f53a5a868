------------------------------ MODULE LaunchCodec ------------------------------
(***************************************************************************)
(* The conversions a launch depends on: the request frame and the argument *)
(* list of the Linux helper (linux_launcher/framed_protocol,               *)
(* protected_bootstrap, parent_launcher), the containment name of a broker *)
(* launch (runtime_process/broker), Windows command lines                  *)
(* (platform-windows service_command), and the chunked SHA-256 of an       *)
(* executable (native_integrity).                                          *)
(*                                                                         *)
(* One state is one value to convert; a second step damages what was       *)
(* written.  Byte values, field sizes and the hash block are small.        *)
(***************************************************************************)
EXTENDS Naturals, Sequences, SequencesExt, TLC

CONSTANTS
    ByteValues,       \* the values of a byte
    MaxField,   \* MAX_FIELD_BYTES
    MaxItems,   \* MAX_ARGUMENTS, MAX_ENVIRONMENT
    Block,      \* bytes of a hash block
    LengthBytes  \* bytes of a hash block that hold the length

ASSUME CodecAssumption ==
    /\ ByteValues \in Nat \ 0..4 /\ MaxField \in 1..(ByteValues - 1) /\ MaxItems \in 1..(ByteValues - 1)
    /\ LengthBytes \in Nat \ {0} /\ Block \in Nat /\ LengthBytes < Block

VARIABLES
    input,   \* a value and what it is
    wire     \* what its encoder wrote, possibly damaged

codecVars == <<input, wire>>

\* An encoder that refuses writes nothing; a decoder returns the value it read,
\* or none.
NotSent == <<>>
None == {}

-----------------------------------------------------------------------------
(* The request frame. *)

\* to_le_bytes and from_le_bytes.
Le(v, w) == [i \in 1..w |-> (v \div ByteValues^(i - 1)) % ByteValues]
FromLe(s) == FoldRight(LAMBDA d, v : d + ByteValues * v, s, 0)

Roles == <<"Gateway", "Harness", "HostBroker", "Synthetic">>

\* component_code, component_from_code.
ComponentCode(role) == CHOOSE i \in 1..4 : Roles[i] = role

\* put_string: what it refuses, and what it writes.
StringFits(s) == Len(s) \in 1..MaxField /\ \A i \in DOMAIN s : s[i] # 0
PutString(s) == Le(Len(s), 2) \o s

\* put_count, and the strings of a list.
PutList(list) == Le(Len(list), 2) \o FlattenSeq([i \in DOMAIN list |-> PutString(list[i])])

\* The fields of a frame, in order.
Layout == << <<"magic", "fixed">>, <<"version", "fixed">>, <<"component", "role">>,
             <<"session", "session">>, <<"reserved", "fixed">>, <<"deployment", "string">>,
             <<"instance", "string">>, <<"incarnation", "string">>, <<"nonce", "string">>,
             <<"cgroup", "string">>, <<"executable", "string">>, <<"digest", "string">>,
             <<"graceful", "u64">>, <<"force", "u64">>, <<"directory", "option">>,
             <<"arguments", "list">>, <<"environment", "list">> >>

Fixed(field) == IF field = "reserved" THEN 0 ELSE 1

Put(field, kind, v) ==
    CASE kind = "fixed"   -> <<Fixed(field)>>
      [] kind = "role"    -> <<ComponentCode(v)>>
      [] kind = "session" -> IF v = <<>> THEN <<0>> ELSE <<1>> \o Le(v[1], 4)
      [] kind = "string"  -> PutString(v)
      [] kind = "u64"     -> Le(v, 8)
      [] kind = "option"  -> IF v = <<>> THEN <<0>> ELSE <<1>> \o PutString(v[1])
      [] kind = "list"    -> PutList(v)

\* encode_frame, without its length prefix; names and values of the environment
\* alternate.
Encodable(r) ==
    /\ \A i \in DOMAIN Layout :
          LET v == r[Layout[i][1]] IN
          /\ Layout[i][2] = "string" => StringFits(v)
          /\ Layout[i][2] \in {"option", "list"} => \A j \in DOMAIN v : StringFits(v[j])
    /\ Len(r.arguments) <= MaxItems /\ Len(r.environment) <= 2 * MaxItems

EncodeFrame(r) ==
    FlattenSeq([i \in DOMAIN Layout |-> Put(Layout[i][1], Layout[i][2], r[Layout[i][1]])])

\* A Cursor over the payload: what is left of it, and the last value read.
Cursor(rest) == [rest |-> rest, ok |-> TRUE, v |-> <<>>]
Bad(c) == [c EXCEPT !.ok = FALSE]

\* read_exact.
ReadExact(c, w) ==
    IF c.ok /\ Len(c.rest) >= w
    THEN [c EXCEPT !.rest = SubSeq(c.rest, w + 1, Len(c.rest)), !.v = SubSeq(c.rest, 1, w)]
    ELSE Bad(c)

\* read_byte, read_u32, read_u64.
ReadNumber(c, w) ==
    LET d == ReadExact(c, w) IN IF d.ok THEN [d EXCEPT !.v = FromLe(@)] ELSE d

\* read_string, read_path.
ReadString(c) ==
    LET d == ReadNumber(c, 2) IN
    IF d.ok /\ d.v \in 1..MaxField THEN ReadExact(d, d.v) ELSE Bad(d)

\* read_count, and the strings it announces.
ReadList(c, most) ==
    LET d == ReadNumber(c, 2) IN
    IF ~d.ok \/ d.v > most THEN Bad(d)
    ELSE FoldLeft(LAMBDA acc, i : LET e == ReadString(acc) IN
                     IF e.ok THEN [e EXCEPT !.v = Append(acc.v, @)] ELSE e,
                  [d EXCEPT !.v = <<>>], [i \in 1..d.v |-> i])

\* A flag, and the value when it is set.
ReadTagged(c, kind) ==
    LET d == ReadNumber(c, 1) IN
    IF ~d.ok \/ d.v > 1 THEN Bad(d)
    ELSE IF d.v = 0 THEN [d EXCEPT !.v = <<>>]
    ELSE LET e == IF kind = "session" THEN ReadNumber(d, 4) ELSE ReadString(d)
         IN  IF e.ok THEN [e EXCEPT !.v = <<@>>] ELSE e

Read(c, field, kind) ==
    CASE kind = "fixed"   -> LET d == ReadNumber(c, 1) IN
                             IF d.ok /\ d.v = Fixed(field) THEN [d EXCEPT !.v = <<>>] ELSE Bad(d)
      [] kind = "role"    -> LET d == ReadNumber(c, 1) IN
                             IF d.ok /\ d.v \in 1..4 THEN [d EXCEPT !.v = Roles[d.v]] ELSE Bad(d)
      [] kind \in {"session", "option"} -> ReadTagged(c, kind)
      [] kind = "string"  -> ReadString(c)
      [] kind = "u64"     -> ReadNumber(c, 8)
      [] kind = "list"    -> ReadList(c, IF field = "arguments" THEN MaxItems ELSE 2 * MaxItems)

\* decode_frame: every field, and nothing after the last one; the request is
\* validated, which refuses a NUL.
DecodeFrame(bytes) ==
    LET step[i \in 0..Len(Layout)] ==
            IF i = 0 THEN [c |-> Cursor(bytes), r |-> [f \in {} |-> f]]
            ELSE LET prev == step[i - 1]
                     d    == Read(prev.c, Layout[i][1], Layout[i][2])
                 IN IF ~prev.c.ok THEN prev
                    ELSE [c |-> d, r |-> prev.r @@ (Layout[i][1] :> d.v)]
        end == step[Len(Layout)]
    IN IF end.c.ok /\ end.c.rest = <<>> /\ Encodable(end.r) THEN {end.r} ELSE None

-----------------------------------------------------------------------------
(* The helper's argument list. *)

\* prepare_inner, after the program name and the helper's own argument.
HelperArguments(b) ==
    <<"helper", "parent", b.pid, "config", b.config, "root", b.root, b.ready>> \o
    CASE b.pipe = "none"    -> <<>>
      [] b.pipe = "gateway" -> <<"gateway", b.fd>>
      [] b.pipe = "worker"  -> <<"worker", b.fd, "boot", b.boot, "frame", b.frame>>

\* parse::<RawFd>; from_parent_fds wants them above the standard descriptors
\* and distinct.
Standard == {"0", "1", "2"}
Opened   == {"3", "4", "5", "6", "7"}
IsDescriptor(a) == a \in Standard \cup Opened
Distinct(b) ==
    LET fds == <<b.config, b.root, b.ready>> \o (IF b.pipe = "none" THEN <<>> ELSE <<b.fd>>)
    IN \A i, j \in DOMAIN fds : fds[i] \in Opened /\ (fds[i] = fds[j] => i = j)

\* parse_helper_bootstrap_arguments: nothing at all, or nothing after the
\* parent's number, is no bootstrap.
ParseHelper(a) ==
    LET word(i, w) == Len(a) >= i /\ a[i] = w
        fd(i)      == Len(a) >= i /\ IsDescriptor(a[i])
        parsed(pipe, f, boot, frame) ==
            LET b == [pid |-> a[3], config |-> a[5], root |-> a[7], ready |-> a[8],
                      pipe |-> pipe, fd |-> f, boot |-> boot, frame |-> frame]
            IN IF Distinct(b) THEN {b} ELSE None
        fixed == /\ word(1, "helper") /\ word(2, "parent") /\ fd(3)
                 /\ word(4, "config") /\ fd(5) /\ word(6, "root") /\ fd(7) /\ fd(8)
    IN CASE fixed /\ Len(a) = 8 -> parsed("none", "0", "0", "0")
         [] fixed /\ word(9, "gateway") /\ fd(10) /\ Len(a) = 10 ->
               parsed("gateway", a[10], "0", "0")
         [] /\ fixed /\ word(9, "worker") /\ fd(10) /\ word(11, "boot") /\ word(13, "frame")
            /\ Len(a) = 14 -> parsed("worker", a[10], a[12], a[14])
         [] OTHER -> None

-----------------------------------------------------------------------------
(* A broker launch's containment name. *)

\* valid_broker_identity.
ValidIdentity(s) == Len(s) \in 1..MaxField /\ ":" \notin {s[i] : i \in DOMAIN s}

\* broker_planned_containment_for_request.
ContainmentFor(r) ==
    IF \A i \in 2..4 : ValidIdentity(r[i])
    THEN FoldLeft(LAMBDA acc, part : acc \o <<":">> \o part, <<"p">>, r)
    ELSE NotSent

\* str::split.
Split(s) ==
    FoldLeft(LAMBDA acc, ch : IF ch = ":" THEN Append(acc, <<>>)
                              ELSE [acc EXCEPT ![Len(acc)] = Append(@, ch)],
             << <<>> >>, s)

\* broker_request_from_planned_containment.
RequestFrom(s) ==
    LET parts == Split(s)
        r     == SubSeq(parts, 2, 5)
    IN IF /\ Len(parts) = 5 /\ parts[1] = <<"p">> /\ parts[2] \in {<<"g">>, <<"h">>}
          /\ ContainmentFor(r) = s
       THEN {r} ELSE None

-----------------------------------------------------------------------------
(* Windows command lines. *)

Blank == {" "}
Slashes(n) == [i \in 1..n |-> "\\"]
HasAny(s, chars) == \E i \in DOMAIN s : s[i] \in chars

\* The characters of a quoted argument: backslashes are held back until it is
\* known whether a quote follows them.
QuoteCharacters(s) ==
    FoldLeft(LAMBDA acc, ch :
        CASE ch = "\\" -> [acc EXCEPT !.n = @ + 1]
          [] ch = "\"" -> [out |-> acc.out \o Slashes(2 * acc.n + 1) \o <<ch>>, n |-> 0]
          [] OTHER     -> [out |-> acc.out \o Slashes(acc.n) \o <<ch>>, n |-> 0],
        [out |-> <<"\"">>, n |-> 0], s)

\* Mutant: the backslashes before the closing quote are not doubled.
QuoteShort(s) ==
    IF s # <<>> /\ ~HasAny(s, Blank \cup {"\""}) THEN s
    ELSE LET end == QuoteCharacters(s) IN end.out \o Slashes(end.n) \o <<"\"">>

\* quote_windows.
QuoteWindows(s) ==
    IF s # <<>> /\ ~HasAny(s, Blank \cup {"\""}) THEN s
    ELSE LET end == QuoteCharacters(s) IN end.out \o Slashes(2 * end.n) \o <<"\"">>

\* command_line, render_service_command_line: quoted arguments and blanks.
CommandLine(args) ==
    FoldLeft(LAMBDA acc, a : (IF acc = <<>> THEN acc ELSE acc \o <<" ">>) \o QuoteWindows(a),
             <<>>, args)

\* parse_windows_arguments, a character at a time: inside an argument, inside
\* quotes, the backslashes not yet decided, and a quote already consumed.
ParseStep(line, acc, i) ==
    LET ch   == line[i]
        pair == i < Len(line) /\ line[i + 1] = "\""
        add(s, quoted, skip) == [acc EXCEPT !.arg = @ \o s, !.in = TRUE, !.n = 0,
                                            !.quoted = quoted, !.skip = skip]
    IN IF acc.skip THEN [acc EXCEPT !.skip = FALSE] ELSE
       CASE ~acc.in /\ ch \in Blank -> acc
         [] ch = "\\" -> [acc EXCEPT !.n = @ + 1, !.in = TRUE]
         [] ch = "\"" /\ acc.n % 2 = 1 ->
               add(Slashes(acc.n \div 2) \o <<ch>>, acc.quoted, FALSE)
         [] ch = "\"" /\ acc.n % 2 = 0 /\ acc.quoted /\ pair ->
               add(Slashes(acc.n \div 2) \o <<ch>>, TRUE, TRUE)
         [] ch = "\"" /\ acc.n % 2 = 0 /\ ~(acc.quoted /\ pair) ->
               add(Slashes(acc.n \div 2), ~acc.quoted, FALSE)
         [] ch \in Blank /\ ~acc.quoted /\ acc.in ->
               [acc EXCEPT !.out = Append(@, acc.arg \o Slashes(acc.n)), !.arg = <<>>,
                           !.in = FALSE, !.n = 0]
         [] OTHER -> add(Slashes(acc.n) \o <<ch>>, acc.quoted, FALSE)

ParseWindows(line) ==
    LET end == FoldLeftDomain(LAMBDA acc, i : ParseStep(line, acc, i),
                   [out |-> <<>>, arg |-> <<>>, in |-> FALSE, quoted |-> FALSE, n |-> 0,
                    skip |-> FALSE], line)
    IN CASE end.quoted -> None
         [] ~end.quoted /\ end.in -> {Append(end.out, end.arg \o Slashes(end.n))}
         [] OTHER -> {end.out}

\* parse_service_command_line: the fixed words (one here), no quote inside an argument, and
\* the canonical form.
ServiceCommand(line) ==
    {args \in ParseWindows(line) :
        /\ Len(args) = 3 /\ args[2] = <<"d">> /\ args[1] # <<>> /\ args[3] # <<>>
        /\ \A i \in 1..3 : ~HasAny(args[i], {"\""})
        /\ CommandLine(args) = line}

-----------------------------------------------------------------------------
(* The digest of a file read in pieces. *)

BlockOf(bytes, k) == SubSeq(bytes, (k - 1) * Block + 1, k * Block)

\* Sha256::new; a compressed block is remembered instead of mixed in.
Hasher == [blocks |-> <<>>, buffer |-> <<>>, length |-> 0]

\* Sha256::compress.
Compress(h, bytes) == [h EXCEPT !.blocks = Append(@, bytes), !.buffer = <<>>]

\* Sha256::update: the buffer is filled and compressed, whole blocks of the
\* input follow, the rest is kept.
Update(h, piece) ==
    LET all  == h.buffer \o piece
        full == Len(all) \div Block
        done == FoldLeft(LAMBDA acc, k : Compress(acc, BlockOf(all, k)), h, [k \in 1..full |-> k])
    IN [done EXCEPT !.buffer = SubSeq(all, full * Block + 1, Len(all)),
                    !.length = @ + Len(piece)]

Zeros(n) == [i \in 1..n |-> 0]
LengthField(h) == [i \in 1..LengthBytes |-> <<"length", h.length>>]

\* The mark, and the length in the last bytes of a block; a buffer without room
\* for both is compressed first.
FinalBlocks(h, marked, full) ==
    LET room == Block - LengthBytes
    IN IF full THEN Compress(Compress(h, marked \o Zeros(Block - Len(marked))),
                             Zeros(room) \o LengthField(h)).blocks
       ELSE Compress(h, marked \o Zeros(room - Len(marked)) \o LengthField(h)).blocks

\* Sha256::finalize.
Finalize(h) ==
    LET marked == h.buffer \o <<"mark">>
    IN FinalBlocks(h, marked, Len(marked) > Block - LengthBytes)

\* hash_immutable_file: reads of any size.
HashPieces(pieces) == Finalize(FoldLeft(Update, Hasher, pieces))

\* The padded message the standard defines, cut into blocks.
Padded(bytes) ==
    LET marked == bytes \o <<"mark">>
        fill   == CHOOSE k \in 0..(Block - 1) : (Len(marked) + k + LengthBytes) % Block = 0
        all    == marked \o Zeros(fill) \o [i \in 1..LengthBytes |-> <<"length", Len(bytes)>>]
    IN [k \in 1..(Len(all) \div Block) |-> BlockOf(all, k)]

-----------------------------------------------------------------------------
(* The values that are converted. *)

Words == {<<1>>, <<2, 1>>}
LaunchRequest(s, d, l, e, role) ==
    [magic |-> <<>>, version |-> <<>>, reserved |-> <<>>, component |-> role, session |-> s,
     deployment |-> <<1>>, instance |-> <<2, 1>>, incarnation |-> <<1>>, nonce |-> <<2>>,
     cgroup |-> <<1>>, executable |-> <<1, 2>>, digest |-> <<2, 2>>, graceful |-> 5,
     force |-> 2, directory |-> d, arguments |-> l, environment |-> e]
Requests ==
    {LaunchRequest(s, d, l, e, role) : s \in {<<>>, <<1>>}, d \in {<<>>, << <<2>> >>},
        l \in UNION {[1..n -> Words] : n \in 0..2}, e \in {<<>>, << <<1>>, <<2>> >>},
        role \in {"Gateway", "Synthetic"}}
Bootstraps ==
    UNION {[pid : {"7"}, config : {"2", "3", "4"}, root : {"3", "4"}, ready : {"4", "5"},
            pipe : {p}, fd : IF p = "none" THEN {"0"} ELSE {"5", "6"},
            boot : {IF p = "worker" THEN "id" ELSE "0"},
            frame : {IF p = "worker" THEN "digest" ELSE "0"}] : p \in {"none", "gateway", "worker"}}
Names == {<<"a">>, <<"a", "b">>, <<"a", ":">>, <<>>}
Identities == {<<c, i, j, k>> : c \in {<<"g">>, <<"h">>}, i \in Names, j \in Names, k \in Names}
Characters == {"a", " ", "\\", "\""}
Texts == UNION {[1..n -> Characters] : n \in 0..3}
Pieces == UNION {[1..n -> {<<>>, <<1>>, <<1, 2>>, <<1, 2, 3>>, <<1, 2, 3, 4, 5>>}] : n \in 0..3}

Value(kind) ==
    CASE kind = "frame"   -> Requests
      [] kind = "helper"  -> Bootstraps
      [] kind = "broker"  -> Identities
      [] kind = "command" -> {<<a, b>> : a \in Texts, b \in {t \in Texts : Len(t) < 3}}
      [] kind = "service" -> {<<a, <<"d">>, b>> : a \in {t \in Texts : Len(t) < 3},
                                                  b \in {t \in Texts : Len(t) < 3}}
      [] kind = "digest"  -> Pieces

Encode(kind, v) ==
    CASE kind = "frame"   -> IF Encodable(v) THEN EncodeFrame(v) ELSE NotSent
      [] kind = "helper"  -> HelperArguments(v)
      [] kind = "broker"  -> ContainmentFor(v)
      [] kind = "command" -> CommandLine(v)
      [] kind = "service" -> CommandLine(v)
      [] kind = "digest"  -> HashPieces(v)

Decode(kind, w) ==
    CASE kind = "frame"   -> DecodeFrame(w)
      [] kind = "helper"  -> ParseHelper(w)
      [] kind = "broker"  -> RequestFrom(w)
      [] kind = "command" -> ParseWindows(w)
      [] kind = "service" -> ServiceCommand(w)

\* What a decoder refuses although its encoder writes it.
Takes(kind, v) ==
    CASE kind = "helper"  -> Distinct(v)
      [] kind = "service" -> \A i \in {1, 3} : v[i] # <<>> /\ ~HasAny(v[i], {"\""})
      [] OTHER            -> TRUE

CodecInit == input = [kind |-> "none"] /\ wire = NotSent

Write(kind) ==
    /\ input.kind = "none"
    /\ \E v \in Value(kind) :
          /\ input' = [kind |-> kind, v |-> v]
          /\ wire' = Encode(kind, v)

\* A frame or an argument list loses its end, grows, or has one item changed.
Damage ==
    LET Item == IF input.kind = "frame" THEN {0, 1, 3} ELSE {"0", "3", "worker", "gateway"} IN
    /\ input.kind \in {"frame", "helper"} /\ wire # NotSent
    /\ input.kind = "frame" => input.v.session = <<>> /\ Len(input.v.arguments) < 2
    /\ input' = [kind |-> "damaged", of |-> input.kind]
    /\ \/ wire' = Front(wire)
       \/ \E x \in Item : wire' = Append(wire, x)
       \/ \E i \in DOMAIN wire, x \in Item : wire' = [wire EXCEPT ![i] = x]

CodecNext ==
    \/ Damage
    \/ \E kind \in {"frame", "helper", "broker", "command", "service", "digest"} : Write(kind)

-----------------------------------------------------------------------------
(* Properties. *)

\* What an encoder of the launch path writes, its decoder reads back as the same
\* value, for every value the encoder takes; and a damaged frame or argument
\* list that a decoder still accepts is exactly what the encoder writes for the
\* value read, so that no two byte strings stand for one request.  The digest of
\* an executable covers the padded file however many bytes each read returns.
RoundTrips ==
    CASE input.kind = "none" -> TRUE
      [] input.kind = "digest" -> wire = Padded(FlattenSeq(input.v))
      [] input.kind = "damaged" -> \A v \in Decode(input.of, wire) : Encode(input.of, v) = wire
      [] OTHER -> \/ wire = NotSent
                  \/ Decode(input.kind, wire) = {v \in {input.v} : Takes(input.kind, v)}
================================================================================
