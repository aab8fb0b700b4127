------------------------------ MODULE MCMalloc ------------------------------
(* Instantiates Malloc for TLC: 4 descriptors (16..128 bytes, a 512-byte   *)
(* page), 16-bit size_t.                                                   *)
EXTENDS Malloc

CONSTANTS t1, t2

\* One caller: the allocator run sequentially.
OneThread == {t1}
\* Two callers interleaving their calls.
TwoThreads == {t1, t2}

\* Requests: 0, one for each class from 32 bytes up, and a 2-page block.
SizesSeq == {0, 32, 64, 100, 600}
\* Requests that include the 16-byte class.
Sizes16 == {16, 32}

\* calloc and realloc on top-class and big blocks. The calloc pairs: a
\* zero factor, 600 bytes, and two products that wrap in 16 bits and that
\* the check rejects (80000 < 2^16 + 40000, 65536 = 2^16).
SizesApi == {0, 100, 600}
\* realloc to a big block or to 0. realloc to 100 or 64, and calloc of a
\* small block, are left out: their memcpy or memset overwrites the new
\* block's size word and the later free breaks.
ReallocApi == {0, 600}
CallocApi == {<<0, 7>>, <<2, 300>>, <<2, 40000>>, <<256, 256>>}
\* A product that wraps to 513 and passes the check: 257 * 257 = 2^16 + 513.
CallocWrap == {<<257, 257>>}
=============================================================================
