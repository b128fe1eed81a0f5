------------------------------- MODULE Digest -------------------------------
(***************************************************************************)
(* Message digests fed in pieces (MD5, SHA-1, SHA-256, and the wrappers of *)
(* OpenSSL's and mbedTLS's), and HMAC over any of them.                    *)
(*                                                                         *)
(* A byte is a tuple: <<"d", n>> the n-th byte of the message, <<"k", n>>  *)
(* of the key, <<"80">> and <<"0">> padding, <<"n", b>> a byte of the      *)
(* length, <<"i", b>> and <<"o", b>> a byte under HMAC's two masks, and    *)
(* <<"h", blocks, n>> the n-th byte of the digest of a sequence of blocks. *)
(* The compression function only remembers the blocks it was given, so two *)
(* digests are equal when the same blocks were compressed in the same      *)
(* order and under the same algorithm.                                     *)
(*                                                                         *)
(* Block, LenSize, DigestSize stand for 64, 8 and the digest's size in     *)
(* bytes; Base for 256.                                                    *)
(***************************************************************************)
EXTENDS Naturals, Sequences

CONSTANTS Block, LenSize, DigestSize, Base, MaxMessage, Algs, KeyLens, Failures

VARIABLE dg

NoBytes == <<>>
Zero == <<"0">>
Slots == 0..(Block - 1)

\* memcpy of a sequence of bytes into the buffer.
Put(buffer, at, data) ==
  [i \in Slots |-> IF i >= at /\ i < at + Len(data) THEN data[i - at + 1] ELSE buffer[i]]

Zeros(n) == [i \in 1..n |-> Zero]

Transform(c) == [c EXCEPT !.state = Append(@, c.buffer)]

BlockAt(data, n) == [i \in Slots |-> data[n * Block + i + 1]]

-----------------------------------------------------------------------------
\* The built-in algorithms.

Fresh == [state |-> <<>>, count |-> 0, buffer |-> [i \in Slots |-> Zero]]

\* A started block is filled first, whole blocks go straight through, what is
\* left starts the next one.
Absorb(c, used, data) ==
  LET space == Block - used
      filled == Transform([c EXCEPT !.buffer = Put(@, used, SubSeq(data, 1, space))])
      rest == IF used > 0 THEN SubSeq(data, space + 1, Len(data)) ELSE data
      whole == Len(rest) \div Block
      base == IF used > 0 THEN filled ELSE c
  IN IF used > 0 /\ Len(data) < space
     THEN [c EXCEPT !.buffer = Put(@, used, data)]
     ELSE [base EXCEPT !.state = @ \o [n \in 1..whole |-> BlockAt(rest, n - 1)],
                       !.buffer = Put(@, 0, SubSeq(rest, whole * Block + 1, Len(rest)))]

xMd5Update(c, data) ==
  Absorb([c EXCEPT !.count = @ + Len(data)], c.count % Block, data)

xSha1Update(c, data) ==
  Absorb([c EXCEPT !.count = @ + Len(data) * 8], (c.count \div 8) % Block, data)

xSha256Update(c, data) ==
  Absorb([c EXCEPT !.count = @ + Len(data) * 8], (c.count \div 8) % Block, data)

\* The closing byte, zeros, and the length at the end of a block: of this one,
\* or of the next when it no longer fits.
Close(c, used, length) ==
  LET marked == [c EXCEPT !.buffer = Put(@, used, <<<<"80">>>>)]
      over == used + 1 > Block - LenSize
      padded == Transform([marked EXCEPT !.buffer = Put(@, used + 1, Zeros(Block - used - 1))])
      base == IF over THEN padded ELSE marked
      at == IF over THEN 0 ELSE used + 1
  IN Transform([base EXCEPT
       !.buffer = Put(Put(@, at, Zeros(Block - LenSize - at)), Block - LenSize, length)]).state

\* The number of bits in LenSize bytes, the least significant first or last.
Little(bits) == [i \in 1..LenSize |-> <<"n", (bits \div Base^(i - 1)) % Base>>]
Big(bits) == [i \in 1..LenSize |-> <<"n", (bits \div Base^(LenSize - i)) % Base>>]

xMd5Final(c) == Close(c, c.count % Block, Little(c.count * 8))
xSha1Final(c) == Close(c, (c.count \div 8) % Block, Big(c.count))
xSha256Final(c) == Close(c, (c.count \div 8) % Block, Big(c.count))

-----------------------------------------------------------------------------
\* The reference: the padded message cut into blocks.
Padded(data, length) ==
  LET room == (2 * Block - LenSize - 1 - (Len(data) % Block)) % Block
  IN data \o <<<<"80">>>> \o Zeros(room) \o length

Reference(alg, data) ==
  LET all == Padded(data, IF alg = "md5" THEN Little(Len(data) * 8) ELSE Big(Len(data) * 8))
  IN [n \in 1..(Len(all) \div Block) |-> BlockAt(all, n - 1)]

Bytes(blocks) == [n \in 1..DigestSize |-> <<"h", blocks, n>>]

-----------------------------------------------------------------------------
\* The hash behind the interface HMAC and the callers use.  A context of a
\* library holds an object (`open`) from init to final; its calls may be
\* refused: the `fail`-th one is.
Builtin(alg) == alg \in {"md5", "sha1", "sha256"}
Refused(c) == ~Builtin(c.alg) /\ c.calls + 1 = c.fail
Called(c) == [c EXCEPT !.calls = IF @ < c.fail THEN @ + 1 ELSE @]

openssl_Init(c) ==
  IF Refused(c) THEN [Called(c) EXCEPT !.ok = FALSE, !.open = FALSE]
  ELSE [Called(c) EXCEPT !.ok = TRUE, !.open = TRUE, !.data = <<>>]

openssl_Update(c, data) ==
  IF ~c.open \/ Refused(c) THEN [Called(c) EXCEPT !.ok = FALSE]
  ELSE [Called(c) EXCEPT !.ok = TRUE, !.data = @ \o data]

openssl_Final(c) ==
  IF ~c.open THEN [Called(c) EXCEPT !.ok = FALSE]
  ELSE [Called(c) EXCEPT !.ok = ~Refused(c), !.open = FALSE,
                         !.digest = IF Refused(c) THEN NoBytes ELSE Bytes(Reference(c.alg, c.data))]

mbedtls_Init(c) ==
  IF Refused(c) THEN [Called(c) EXCEPT !.ok = FALSE, !.open = FALSE]
  ELSE [Called(c) EXCEPT !.ok = TRUE, !.open = TRUE, !.data = <<>>]

\* mbedTLS keeps no handle to look at: the calls are made whatever came before.
mbedtls_Update(c, data) ==
  IF Refused(c) THEN [Called(c) EXCEPT !.ok = FALSE]
  ELSE [Called(c) EXCEPT !.ok = TRUE, !.data = @ \o data]

mbedtls_Final(c) ==
  [Called(c) EXCEPT !.ok = ~Refused(c), !.open = FALSE,
                    !.digest = IF Refused(c) THEN NoBytes ELSE Bytes(Reference(c.alg, c.data))]

Init_(c) ==
  IF Builtin(c.alg) THEN [c EXCEPT !.impl = Fresh, !.ok = TRUE]
  ELSE IF c.alg = "openssl" THEN openssl_Init(c) ELSE mbedtls_Init(c)

Update_(c, data) ==
  CASE c.alg = "md5" -> [c EXCEPT !.impl = xMd5Update(@, data), !.ok = TRUE]
    [] c.alg = "sha1" -> [c EXCEPT !.impl = xSha1Update(@, data), !.ok = TRUE]
    [] c.alg = "sha256" -> [c EXCEPT !.impl = xSha256Update(@, data), !.ok = TRUE]
    [] c.alg = "openssl" -> openssl_Update(c, data)
    [] OTHER -> mbedtls_Update(c, data)

\* The built-in contexts are cleared once their digest is out.
Final_(c) ==
  LET blocks == CASE c.alg = "md5" -> xMd5Final(c.impl)
                  [] c.alg = "sha1" -> xSha1Final(c.impl)
                  [] OTHER -> xSha256Final(c.impl)
  IN IF Builtin(c.alg) THEN [c EXCEPT !.impl = Fresh, !.ok = TRUE, !.digest = Bytes(blocks)]
     ELSE IF c.alg = "openssl" THEN openssl_Final(c) ELSE mbedtls_Final(c)

\* The whole message at once.
Whole(c, data) ==
  LET started == Init_(c)
      fed == Update_(started, data)
  IN IF ~started.ok THEN started
     ELSE IF fed.ok THEN Final_(fed) ELSE [Final_(fed) EXCEPT !.ok = FALSE, !.digest = NoBytes]

-----------------------------------------------------------------------------
\* HMAC.
Key(n) == [i \in 1..n |-> <<"k", i>>]
Mask(m, block) == [i \in 1..Block |-> <<m, block[i]>>]
Fill(key) == key \o Zeros(Block - Len(key))

\* hmac_cleanup_: the running hash is closed and the state forgotten, unless
\* it was forgotten before.
hmac_cleanup_(c) == IF c.hash THEN [Final_(c) EXCEPT !.hash = FALSE, !.digest = NoBytes] ELSE c

Failed(c) == [hmac_cleanup_(c) EXCEPT !.ok = FALSE]

\* A key longer than a block is replaced by its digest.
xHmacInit(c, key) ==
  LET hashed == Init_([c EXCEPT !.hash = TRUE])
      updated == Update_(hashed, key)
      final == Final_(updated)
      Rest(base, k) ==
        LET started == Init_([base EXCEPT !.opad = Mask("o", Fill(k)), !.digest = NoBytes])
            fed == Update_(started, Mask("i", Fill(k)))
        IN IF ~started.ok THEN started ELSE IF fed.ok THEN fed ELSE Failed(fed)
  IN IF Len(key) <= Block THEN Rest([c EXCEPT !.hash = TRUE], key)
     ELSE IF ~hashed.ok THEN hashed
     ELSE IF ~updated.ok THEN Failed(updated)
     ELSE IF ~final.ok THEN Failed(final)
     ELSE Rest(final, final.digest)

xHmacUpdate(c, data) == IF c.hash THEN Update_(c, data) ELSE [c EXCEPT !.ok = FALSE]

\* `wanted` is whether the caller gave room for the digest.
xHmacFinal(c, wanted) ==
  LET inner == Final_(c)
      outer == Init_(inner)
      masked == Update_(outer, c.opad)
      fed == Update_(masked, inner.digest)
      final == Final_(fed)
  IN IF ~c.hash THEN [c EXCEPT !.ok = FALSE]
     ELSE IF ~wanted THEN Failed(c)
     ELSE IF ~inner.ok THEN inner
     ELSE IF ~outer.ok THEN [outer EXCEPT !.digest = NoBytes]
     ELSE IF ~masked.ok THEN Failed(masked)
     ELSE IF ~fed.ok THEN Failed(fed)
     ELSE [final EXCEPT !.hash = FALSE]

\* The whole message at once.
xHmac(c, key, data) ==
  LET started == xHmacInit(c, key)
      fed == xHmacUpdate(started, data)
      final == xHmacFinal(fed, TRUE)
  IN IF ~started.ok THEN started
     ELSE IF ~fed.ok THEN Failed(fed)
     ELSE IF ~final.ok THEN Failed(final) ELSE final

-----------------------------------------------------------------------------
\* A caller: begin with or without a key, feed pieces, finish.

Ctx(alg, fail) ==
  [alg |-> alg, impl |-> Fresh, open |-> FALSE, data |-> <<>>, calls |-> 0, fail |-> fail,
   ok |-> TRUE, digest |-> NoBytes, hash |-> FALSE, opad |-> <<>>]

Message(from, n) == [i \in 1..n |-> <<"d", from + i>>]

Init ==
  /\ dg \in [c : {Ctx(alg, fail) : alg \in Algs, fail \in Failures}, key : KeyLens,
             fed : {0}, pc : {"new"}]
  /\ Builtin(dg.c.alg) => dg.c.fail = 0

Keyed == dg.key > 0

Begin ==
  /\ dg.pc = "new"
  /\ LET c == IF Keyed THEN xHmacInit(dg.c, Key(dg.key)) ELSE Init_(dg.c)
     IN dg' = [dg EXCEPT !.c = c, !.pc = IF c.ok THEN "feeding" ELSE "over"]

Feed(n) ==
  /\ dg.pc = "feeding"
  /\ dg.fed + n <= MaxMessage
  /\ LET c == IF Keyed THEN xHmacUpdate(dg.c, Message(dg.fed, n))
              ELSE Update_(dg.c, Message(dg.fed, n))
     IN dg' = IF c.ok THEN [dg EXCEPT !.c = c, !.fed = @ + n]
              ELSE [dg EXCEPT !.c = c, !.pc = "failed"]

\* Nothing but finishing is left to the caller of a refused update.
Finish(wanted) ==
  /\ dg.pc \in {"feeding", "failed"}
  /\ dg.pc = "failed" /\ Keyed => ~wanted
  /\ ~Keyed => wanted
  /\ LET c == IF Keyed THEN xHmacFinal(dg.c, wanted) ELSE Final_(dg.c)
     IN dg' = [dg EXCEPT !.c = IF dg.pc = "failed" THEN [c EXCEPT !.digest = NoBytes, !.ok = FALSE]
                                 ELSE c,
                         !.pc = "over"]

OneShot(n) ==
  /\ dg.pc = "new"
  /\ dg' = [dg EXCEPT !.c = IF Keyed THEN xHmac(dg.c, Key(dg.key), Message(0, n))
                             ELSE Whole(dg.c, Message(0, n)),
                      !.fed = n, !.pc = "over"]

Next ==
  \/ Begin
  \/ \E n \in 0..MaxMessage : Feed(n) \/ OneShot(n)
  \/ \E wanted \in BOOLEAN : Finish(wanted)

Spec == Init /\ [][Next]_dg
-----------------------------------------------------------------------------
RefBytes(data) == Bytes(Reference(dg.c.alg, data))

HmacReference(key, data) ==
  LET k == Fill(IF Len(key) > Block THEN RefBytes(key) ELSE key)
  IN RefBytes(Mask("o", k) \o RefBytes(Mask("i", k) \o data))

\* The digest does not depend on how the message was cut into pieces, for
\* every length around the block's and the padding's boundaries and whatever
\* an earlier message left in the buffer; a key of any length gives the HMAC
\* of the definition; and when the caller is done, refused or not, no
\* library context stays open.
DigestsRight ==
  dg.pc = "over" =>
     /\ ~dg.c.open
     /\ dg.c.digest # NoBytes =>
           dg.c.digest = IF Keyed THEN HmacReference(Key(dg.key), Message(0, dg.fed))
                         ELSE RefBytes(Message(0, dg.fed))
     /\ dg.c.ok => dg.c.digest # NoBytes
=============================================================================
