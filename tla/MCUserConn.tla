----------------------------- MODULE MCUserConn -----------------------------
(***************************************************************************)
(* Small instances of UserConn for TLC: an address of one byte for an      *)
(* IPv4, of two for an IPv6, no random in a ClientHello, a salt of two     *)
(* bytes and tags of one, HTTP heads of two or three bytes.                *)
(***************************************************************************)
EXTENDS UserConn

Item(bytes, dest, out) ==
  [bytes |-> bytes, dest |-> dest, out |-> out, stream |-> FALSE, reply |-> <<>>, bad |-> FALSE]
Whole(dest, bytes)     == Item(bytes, dest, bytes)
Flow(dest, bytes)      == [Whole(dest, bytes) EXCEPT !.stream = TRUE]
Step(bytes, reply)     == [Item(bytes, NoDest, <<>>) EXCEPT !.reply = <<reply>>]
Names(dest, bytes, reply) == [Step(bytes, reply) EXCEPT !.dest = dest]
Bad(bytes)             == [Item(bytes, NoDest, <<>>) EXCEPT !.bad = TRUE]
BadAnswered(bytes, reply) == [Bad(bytes) EXCEPT !.reply = <<reply>>]

ScriptsOf(mode, seqs) == {[mode |-> mode, items |-> s] : s \in seqs}

(***************************************************************************)
(* HTTP                                                                    *)
(***************************************************************************)
HostA == [name |-> "a", port |-> 0]
HostB == [name |-> "b", port |-> 8080]
MCHead(bytes, connect, host, length, chunked) ==
  [bytes |-> bytes, connect |-> connect, host |-> host, length |-> length, chunked |-> chunked]

Connect == <<67, 1, 10>>
GetA    == <<71, 1, 10>>
GetB    == <<71, 2, 10>>
PostB   == <<80, 1, 10>>
ChunksA == <<80, 2, 10>>
TooLong == <<76, 2, 3, 4, 5, 6, 7, 8, 9, 10>>

MCHeads == { MCHead(Connect, TRUE, HostA, 0, FALSE),
             MCHead(GetA, FALSE, HostA, 0, FALSE),
             MCHead(GetB, FALSE, HostB, 0, FALSE),
             MCHead(PostB, FALSE, HostB, 9, FALSE),
             MCHead(ChunksA, FALSE, HostA, -1, TRUE),
             MCHead(TooLong, FALSE, HostA, 0, FALSE) }

A80  == <<"a", 80>>
A443 == <<"a", 443>>
B    == <<"b", 8080>>

TwoChunks == <<50, 13, 10, 97, 98, 13, 10>>                         \* 2 ab
SpacedChunk == <<32, 49, 32, 59, 13, 10, 120, 13, 10>>              \* 1 ; x
LastChunk == <<48, 13, 10, 116, 13, 10, 13, 10>>                    \* 0, trailer t

HttpProxyScripts == ScriptsOf("http_proxy", {
  \* A tunnel whose data looks like requests.
  <<Names(A443, Connect, Ack), Flow(A443, GetB \o Connect \o <<1, 2, 3, 4, 5, 6, 7>>)>>,
  \* Pipelined requests for two hosts, with bodies longer than a packet: what
  \* is left of the first looks like a request.
  <<Whole(A80, GetA), Whole(B, PostB), Flow(B, <<1, 2, 3, 4, 5, 6>> \o GetA), Whole(A80, GetA)>>,
  <<Whole(A80, ChunksA), Flow(A80, TwoChunks \o SpacedChunk \o LastChunk), Whole(B, GetB)>>,
  <<Whole(A80, ChunksA), Flow(A80, <<65, 13, 10>> \o GetB \o GetB \o <<1, 2, 3, 4, 13, 10>>
                                     \o <<48, 13, 10, 13, 10>>), Whole(B, GetB)>>,
  \* A size that is none, too great, too long; no CR; no end of data.
  <<Whole(A80, GetA), Bad(<<33>>)>>,
  <<Whole(A80, GetA), Bad(TooLong)>>,
  <<Whole(A80, ChunksA), Flow(A80, <<103, 13>>), Bad(<<10>>)>>,
  <<Whole(A80, ChunksA), Flow(A80, <<13>>), Bad(<<10>>)>>,
  <<Whole(A80, ChunksA), Flow(A80, <<49, 48, 48, 13>>), Bad(<<10>>)>>,
  <<Whole(A80, ChunksA), Flow(A80, <<49, 59, 120, 120, 120, 120>>), Bad(<<120>>)>>,
  <<Whole(A80, ChunksA), Flow(A80, <<49>>), Bad(<<10>>)>>,
  <<Whole(A80, ChunksA), Flow(A80, <<49, 13, 10, 97, 13>>), Bad(<<13>>)>>
  })

HttpScripts == ScriptsOf("http_dns", {
  <<Whole(A80, GetA), Flow(A80, GetB \o <<1, 2, 3, 4, 5, 6, 7, 8>>)>>,
  <<Bad(<<71, 9>>)>>
  })

(***************************************************************************)
(* TLS                                                                     *)
(***************************************************************************)
Ext(type, body) == <<0, type, 0, Len(body)>> \o body
NameList(type, name) == <<0, 3 + Len(name), type, 0, Len(name)>> \o name
Hello(exts) == <<1, 7, 0, 2, 7, 7, 1, 7, 0, Len(exts)>> \o exts
Record(hs) == <<22, 3, 1, 0, Len(hs) + 4, 1, 0, 0, Len(hs)>> \o hs

Name  == <<97, 98>>
Named == <<Name, 443>>

HttpsScripts == ScriptsOf("https_dns", {
  <<Whole(Named, Record(Hello(Ext(23, <<>>) \o Ext(0, NameList(0, Name)) \o Ext(5, <<1>>)))),
    Flow(Named, <<22, 3, 1, 0>>)>>,
  \* A server name of another type goes before.
  <<Whole(Named, Record(Hello(Ext(0, NameList(1, Name)) \o Ext(0, NameList(0, Name)))))>>,
  \* No server name; one that runs into the next extension; one cut off.
  <<Bad(Record(Hello(Ext(23, <<>>))))>>,
  <<Bad(Record(Hello(Ext(0, <<0, 9, 0, 0, 3, 97>>) \o Ext(5, <<1>>))))>>,
  <<Bad(Record(Hello(Ext(0, <<0, 1, 0, 0>>))))>>,
  <<Bad(Record(Hello(<<0, 0, 0>>)))>>,
  <<Bad(Record(Hello(<<0, 0, 0, 7, 1, 2>>)))>>,
  \* Lengths before the extensions that reach past the end.
  <<Bad(Record(<<>>))>>, <<Bad(Record(<<9, 1, 2>>))>>, <<Bad(Record(<<0, 0, 9, 1>>))>>,
  <<Bad(Record(<<0, 0, 0, 9, 1>>))>>, <<Bad(Record(<<0, 0, 0, 0, 0, 9, 1>>))>>,
  \* Not a ClientHello at all.
  <<Bad(<<71>>)>>, <<Bad(<<22, 2, 1, 0, 9>>)>>, <<Bad(<<22, 3, 1, 0, 9, 2>>)>>
  })

(***************************************************************************)
(* SOCKS5                                                                  *)
(***************************************************************************)
Hi == <<5, 2, 1, 0>>
Chosen == NegotiationReply(MethodNone)
Granted == Reply(RepSuccess, AtypIPv4)
RefusedRequest(cmd, atyp, reply) ==
  <<Step(Hi, Chosen), BadAnswered(<<5, cmd, 0, atyp, 9, 9, 0, 80>>, reply)>>

Socks5Scripts == ScriptsOf("socks5", {
  <<Step(Hi, Chosen), Names(<<<<9>>, 258>>, <<5, 1, 0, 1, 9, 1, 2>>, Granted),
    Flow(<<<<9>>, 258>>, Hi \o <<5, 1, 0, 1, 7, 0, 80>>)>>,
  <<Step(Hi, Chosen), Names(<<<<97, 98>>, 80>>, <<5, 1, 0, 3, 2, 97, 98, 0, 80>>, Granted),
    Flow(<<<<97, 98>>, 80>>, <<1>>)>>,
  <<Step(<<5, 1, 0>>, Chosen), Names(<<<<8, 9>>, 80>>, <<5, 1, 0, 4, 8, 9, 0, 80>>, Granted)>>,
  RefusedRequest(2, 4, NotSupported(4)),
  <<Step(Hi, Chosen), BadAnswered(<<5, 3, 0, 1, 9, 0, 80>>, NotSupported(1))>>,
  <<BadAnswered(<<5, 1, 2>>, NegotiationReply(MethodUnsupportAll))>>,
  <<Bad(<<4, 1>>)>>, <<Bad(<<5, 0>>)>>,
  <<Step(Hi, Chosen), Bad(<<4, 1, 0, 1>>)>>,
  <<Step(Hi, Chosen), Bad(<<5, 1, 0, 2>>)>>,
  <<Step(Hi, Chosen), Bad(<<5, 1, 0, 3, 0>>)>>
  })

(***************************************************************************)
(* Shadowsocks                                                             *)
(***************************************************************************)
SaltOf(id)  == [i \in 1..2 |-> <<<<>>, -id, <<>>, i>>]
MCOwnSalt   == SaltOf(2)
UserSalt    == SaltOf(1)
Salt        == Item(UserSalt, NoDest, <<>>)
Nth(n, text) == Chunk(UserSalt, 2 * (n - 1), text)
Text(n, dest, out) == Item(Nth(n, out), dest, out)

\* Noise of n bytes.
Noise(n) == [i \in 1..n |-> <<<<>>, -3, <<>>, i>>]

IPv4 == <<<<9>>, 80>>
Domain == <<<<97, 98>>, 80>>

ShadowsocksScripts == ScriptsOf("shadowsocks", {
  \* The address alone, then more than one packet takes.
  <<Salt, Item(Nth(1, <<1, 9, 0, 80>>), IPv4, <<>>), Text(2, IPv4, <<1, 2, 3, 4, 5>>),
    Text(3, IPv4, <<6>>), Text(4, IPv4, <<7, 8, 9, 10, 11>>)>>,
  \* The address in two chunks, with and without data behind it.
  <<Salt, Item(Nth(1, <<3, 2, 97>>), NoDest, <<>>),
    Item(Nth(2, <<98, 0, 80, 1, 2>>), Domain, <<1, 2>>), Text(3, Domain, <<3, 4, 5>>)>>,
  <<Salt, Item(Nth(1, <<3>>), NoDest, <<>>), Item(Nth(2, <<2, 97, 98, 0, 80>>), Domain, <<>>)>>,
  <<Salt, Item(Nth(1, <<4, 8, 9, 0, 80>>), <<<<8, 9>>, 80>>, <<>>)>>,
  \* Addresses that are none.
  <<Salt, Bad(Nth(1, <<2>>))>>, <<Salt, Bad(Nth(1, <<3, 0>>))>>,
  \* Noise, a chunk sent again, a chunk left out, one that is too long or
  \* empty, and a payload sealed out of turn.
  <<Salt, Bad(Noise(3))>>,
  <<Salt, Item(Nth(1, <<1, 9, 0, 80, 1>>), IPv4, <<1>>), Bad(SubSeq(Nth(1, <<1, 9, 0, 80, 1>>), 1, 3))>>,
  <<Salt, Item(Nth(1, <<1, 9, 0, 80, 1>>), IPv4, <<1>>), Bad(SubSeq(Nth(3, <<2>>), 1, 3))>>,
  <<Salt, Bad(Seal(UserSalt, 0, <<0, 6>>))>>,
  <<Salt, Bad(Seal(UserSalt, 0, <<0, 0>>))>>,
  <<Salt, Bad(Seal(UserSalt, 0, <<0, 2>>) \o Seal(UserSalt, 0, <<1, 9>>))>>
  })

MCScripts == HttpScripts \cup HttpsScripts \cup HttpProxyScripts
               \cup Socks5Scripts \cup ShadowsocksScripts

\* One payload of several chunks, and one of a single byte.
MCDown == <<<<201, 202, 203, 204, 205, 206, 207, 208>>, <<209>>>>
=============================================================================
