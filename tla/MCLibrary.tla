----------------------------- MODULE MCLibrary -----------------------------
(***************************************************************************)
(* The library's components that share no state, checked in one run: the   *)
(* channel (Channel, whose variables are declared there) and the ones      *)
(* whose state is a single value, which is s here.  A behaviour is one of  *)
(* one component: part says of which.                                      *)
(***************************************************************************)
EXTENDS Channel

VARIABLES part, s

Mem == INSTANCE Memory WITH
        slab <- s, SlabThreads <- {1, 2}, NSlots <- 2, MaxChunks <- 2, Mt <- TRUE,
        arr <- s, MaxElems <- 4, MaxArr <- 4, ArenaCap <- 8, ArenaBase <- 1,
        heap <- s, HeapElems <- {"a", "b", "c", "d"}, HeapKeys <- {0, 1}, HeapCap <- 2,
        refs <- s, RefThreads <- {}, RefSlots <- {}, NBlocksRef <- 0, RefKinds <- {}
Mem1 == INSTANCE Memory WITH    \* a slab of one thread
        slab <- s, SlabThreads <- {1}, NSlots <- 2, MaxChunks <- 2, Mt <- FALSE,
        arr <- s, MaxElems <- 4, MaxArr <- 4, ArenaCap <- 8, ArenaBase <- 1,
        heap <- s, HeapElems <- {"a", "b", "c", "d"}, HeapKeys <- {0, 1}, HeapCap <- 2,
        refs <- s, RefThreads <- {}, RefSlots <- {}, NBlocksRef <- 0, RefKinds <- {}
Map == INSTANCE Maps WITH
        tree <- s, N <- 7, MaxVal <- 2,
        flat <- s, hash <- s, MapKeys <- 1..5, Caps <- {2, 4}, MaxCap <- 8
Buf == INSTANCE Buffers WITH
        ring <- s, RingCap <- 4, Word <- 8, MaxByte <- 3,
        buf <- s, MinCap <- 2, MaxBufCap <- 8,
        iob <- s, BlockSize <- 2, Blocks <- 1..3, MaxIoByte <- 5,
        str <- s, StrMin <- 2, StrStep <- 4, MaxStr <- 8, MaxStrByte <- 2
Cx == INSTANCE CxxIo WITH
        pipe <- s, PipeCap <- 3, ReadLens <- {1, 3}, WriteLens <- {2, 4}, MaxBytes <- 4,
        bio <- s, BufSize <- 2, SourceLen <- 4, Limits <- {3, 5}, IoLens <- {1, 2, 3}, MaxGiven <- 4,
        afd <- s, FdKinds <- {}, FdBackends <- {}, MaxLevel <- 0, MaxMoves <- 0,
        file <- s, Files <- {}, FileSlots <- {}, MaxFd <- 0, MaxOpens <- 0, MaxOff <- 0
Par == INSTANCE Parsing WITH
        args <- s, MaxTokens <- 2, MaxShort <- 2, FlagSets <- {{"num", "bool", "count"}, {"bool"}},
        Words <- {<<"1">>, <<"h">>}, Shorts <- {"n", "b", "c", "1", "h"},
        json <- s, MaxText <- 7, MaxStop <- 2,
        lex <- s, HexLen <- 2, MaxStringLen <- 6, MaxNumberLen <- 5,
        node <- s, NNodes <- 4, MemberKeys <- {"a", "b"}
Dig == INSTANCE Digest WITH
        dg <- s, Block <- 4, LenSize <- 2, DigestSize <- 2, Base <- 16, MaxMessage <- 9,
        KeyLens <- {0, 4, 5}, Failures <- 0..8,
        Algs <- {"md5", "sha1", "sha256", "openssl", "mbedtls"}

MCInit ==
  /\ Init
  /\ \/ part = "channel" /\ s = 0
     \/ part = "tree" /\ Map!TreeInit
     \/ part = "flat" /\ Map!FlatInit
     \/ part = "hash" /\ Map!HashInit
     \/ part = "array" /\ Mem!ArrayInit
     \/ part = "heap" /\ Mem!HeapInit
     \/ part = "slab" /\ Mem!SlabInit
     \/ part = "slab1" /\ Mem1!SlabInit
     \/ part = "iobuf" /\ Buf!IoInit
     \/ part = "ring" /\ Buf!RingInit
     \/ part = "buf" /\ Buf!BufInit
     \/ part = "string" /\ Buf!StrInit
     \/ part = "flag" /\ Par!FlagInit
     \/ part = "json" /\ Par!JsonInit
     \/ part = "token" /\ Par!TokenInit
     \/ part = "node" /\ Par!NodeInit
     \/ part = "digest" /\ Dig!Init
     \/ part = "pipe" /\ Cx!PipeInit
     \/ part = "bufio" /\ Cx!BioInit

MCNext ==
  \/ part = "channel" /\ Next /\ UNCHANGED <<part, s>>
  \/ part = "tree" /\ Map!TreeNext /\ UNCHANGED <<part, vars>>
  \/ part = "flat" /\ Map!FlatNext /\ UNCHANGED <<part, vars>>
  \/ part = "hash" /\ Map!HashNext /\ UNCHANGED <<part, vars>>
  \/ part = "array" /\ Mem!ArrayNext /\ UNCHANGED <<part, vars>>
  \/ part = "heap" /\ Mem!HeapNext /\ UNCHANGED <<part, vars>>
  \/ part = "slab" /\ Mem!SlabNext /\ UNCHANGED <<part, vars>>
  \/ part = "slab1" /\ Mem1!SlabNext /\ UNCHANGED <<part, vars>>
  \/ part = "iobuf" /\ Buf!IoNext /\ UNCHANGED <<part, vars>>
  \/ part = "ring" /\ Buf!RingNext /\ UNCHANGED <<part, vars>>
  \/ part = "buf" /\ Buf!BufNext /\ UNCHANGED <<part, vars>>
  \/ part = "string" /\ Buf!StrNext /\ UNCHANGED <<part, vars>>
  \/ part = "flag" /\ Par!FlagNext /\ UNCHANGED <<part, vars>>
  \/ part = "json" /\ Par!JsonNext /\ UNCHANGED <<part, vars>>
  \/ part = "token" /\ Par!TokenNext /\ UNCHANGED <<part, vars>>
  \/ part = "node" /\ Par!NodeNext /\ UNCHANGED <<part, vars>>
  \/ part = "digest" /\ Dig!Next /\ UNCHANGED <<part, vars>>
  \/ part = "pipe" /\ Cx!PipeNext /\ UNCHANGED <<part, vars>>
  \/ part = "bufio" /\ Cx!BioNext /\ UNCHANGED <<part, vars>>

MCSpec == MCInit /\ [][MCNext]_<<part, s, vars>>
-----------------------------------------------------------------------------
\* The containers hold what was put into them and not taken out, in order
\* where they have one, through growth, compaction, rotation, rehashing and
\* reuse, and a block or slot is handed out once; the heap gives the smallest
\* key first and knows where each element is; what comes out of a pipe, a
\* buffered reader or a copy is what went in.
ContentsKept ==
  /\ part = "tree" => Map!TreeRight
  /\ part = "flat" => Map!FlatRight
  /\ part = "hash" => Map!HashRight
  /\ part = "array" => Mem!ElementsHeldOnce
  /\ part = "heap" => Mem!HeapRight
  /\ part = "slab" => Mem!SlotsOnce
  /\ part = "slab1" => Mem1!SlotsOnce
  /\ part = "iobuf" => Buf!BlocksHeld
  /\ part = "ring" => Buf!RingInOrder
  /\ part = "buf" => Buf!BufInOrder
  /\ part = "string" => Buf!StringHolds
  /\ part = "pipe" => Cx!PipesRight
  /\ part = "bufio" => Cx!BioTypeOK /\ Cx!StreamsKept

\* What is read does not depend on how it is spelled or cut: flags, JSON texts,
\* tokens and trees, digests fed in pieces.
ReadRight ==
  /\ part = "flag" => Par!SpellingsAgree
  /\ part = "json" => Par!ParsedRight
  /\ part = "token" => Par!TokensRight
  /\ part = "node" => Par!TreesHeld
  /\ part = "digest" => Dig!DigestsRight
=============================================================================
