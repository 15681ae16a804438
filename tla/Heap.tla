-------------------------------- MODULE Heap --------------------------------
(***************************************************************************)
(* dlmalloc (malloc.c) on 64-bit Linux, as it is built by default: sbrk    *)
(* and mmap, no footers, and no locks, so that calls come one at a time.   *)
(*                                                                         *)
(* Sizes and addresses are in granules of MALLOC_ALIGNMENT, and a request  *)
(* is the padded size nb.  m.chunk maps the address of every live header   *)
(* to what head and prev_foot say; writing a header forgets those that its *)
(* chunk covers, so a header that is read must have been written.  The     *)
(* fields m.pages and m.brk are the kernel's.                              *)
(***************************************************************************)
EXTENDS TreeBins

CONSTANTS MinChunk,        \* MIN_CHUNK_SIZE
          Record,          \* the padded size of a malloc_segment
          FootPad,         \* MMAP_FOOT_PAD
          MmapPad,         \* what mmap_alloc adds before it aligns
          Granularity,     \* mparams.granularity and page_size
          MmapThreshold, TrimThreshold,
          MaxReleaseCheck, \* MAX_RELEASE_CHECK_RATE
          BrkPages,        \* the pages sbrk can give: 1..BrkPages
          Environments,    \* what the process and its address space may be like
          Requests,        \* the sizes asked for
          Alignments       \* the alignments asked for

NULL == 0
TopFoot == Record + MinChunk   \* TOP_FOOT_SIZE
Never == Pow2[SizeBits] - 1       \* MAX_SIZE_T, of trim_check

VARIABLES m,     \* the malloc_state, the memory and the kernel's share
          live   \* what the application holds: chunk -> the size it asked for

(* m.env is one of Environments: where the break is at first, the pages    *)
(* mmap can give, footprint_limit in pages (0 for none), whether munmap    *)
(* and mremap may fail, and how many blocks the application holds at most  *)
(* (a bound).                                                              *)

heapVars == <<m, live>>

Base(page) == page * Granularity
PageOf(a) == a \div Granularity
PagesFor(n) == (n + Granularity - 1) \div Granularity

(* gm before the first call: all zero. *)
HeapInit ==
    /\ \E e \in Environments :
          m = [chunk |-> [a \in {} |-> 0], small |-> [S \in MinChunk..(MinLargeSize - 1) |-> << >>],
               tree |-> EmptyBins, dv |-> NULL, dvsize |-> 0, top |-> NULL, topsize |-> 0,
               seg |-> << >>, trim_check |-> 0, release_checks |-> 0, noncontiguous |-> FALSE,
               footprint |-> 0, pages |-> {}, brk |-> e.brk, env |-> e]
    /\ live = [p \in {} |-> 0]

-----------------------------------------------------------------------------
(* Heads and feet. *)

WriteHead(p, c, s, cinuse, pinuse) ==
    [a \in {b \in DOMAIN c : b <= p \/ b >= p + s} \cup {p} |->
        IF a # p THEN c[a]
        ELSE [size |-> s, cinuse |-> cinuse, pinuse |-> pinuse,
              foot |-> IF ~pinuse /\ p \in DOMAIN c THEN c[p].foot ELSE 0]]

(* The foot before a chunk belongs to the chunk there once that is in use. *)
SetPinuse(c, n) ==
    IF n \in DOMAIN c THEN [c EXCEPT ![n].pinuse = TRUE, ![n].foot = 0]
    ELSE WriteHead(n, c, 0, FALSE, TRUE)

set_inuse(c, p, s) == SetPinuse(WriteHead(p, c, s, TRUE, c[p].pinuse), p + s)
set_inuse_and_pinuse(c, p, s) == SetPinuse(WriteHead(p, c, s, TRUE, TRUE), p + s)
set_size_and_pinuse_of_inuse_chunk(c, p, s) == WriteHead(p, c, s, TRUE, TRUE)

set_size_and_pinuse_of_free_chunk(c, p, s) ==
    [WriteHead(p, c, s, FALSE, TRUE) EXCEPT ![p + s].foot = s]

(* Broken set_free_with_pinuse: the chunk behind is not told.              *)
set_free_only(c, p, s, n) == set_size_and_pinuse_of_free_chunk(c, p, s)

set_free_with_pinuse(c, p, s, n) ==
    set_size_and_pinuse_of_free_chunk([c EXCEPT ![n].pinuse = FALSE], p, s)

is_inuse(c, p) == c[p].cinuse \/ ~c[p].pinuse
is_mmapped(c, p) == ~c[p].cinuse /\ ~c[p].pinuse

Sizes(c) == [a \in DOMAIN c |-> c[a].size]
Forget(c, from, to) == [a \in {b \in DOMAIN c : b < from \/ b >= to} |-> c[a]]

-----------------------------------------------------------------------------
(* Bins.  The size in the head is the size that is passed. *)

insert_small_chunk(h, p, s) == [h EXCEPT !.small[s] = <<p>> \o @]
unlink_small_chunk(h, p, s) == [h EXCEPT !.small[s] = SelectSeq(@, LAMBDA x : x # p)]
unlink_first_small_chunk(h, s) == [h EXCEPT !.small[s] = Tail(@)]

insert_chunk(h, p) ==
    LET s == h.chunk[p].size
    IN  IF is_small(s) THEN insert_small_chunk(h, p, s)
        ELSE [h EXCEPT !.tree = insert_large_chunk(@, Sizes(h.chunk), p)]

unlink_chunk(h, p) ==
    LET s == h.chunk[p].size
    IN  IF is_small(s) THEN unlink_small_chunk(h, p, s)
        ELSE [h EXCEPT !.tree = unlink_large_chunk(@, p)]

(* Broken replace_dv: the old victim is in no bin.                         *)
replace_dv_only(h, p, s) == [h EXCEPT !.dv = p, !.dvsize = s]

replace_dv(h, p, s) ==
    LET binned == IF h.dvsize # 0 THEN insert_small_chunk(h, h.dv, h.dvsize) ELSE h
    IN  [binned EXCEPT !.dv = p, !.dvsize = s]

no_dv(h) == [h EXCEPT !.dv = NULL, !.dvsize = 0]

-----------------------------------------------------------------------------
(* Segments; the first of h.seg is h's own record, the others are at rec.  *)

End(s) == s.base + s.size
segment_holding(h, a) == {i \in DOMAIN h.seg : a >= h.seg[i].base /\ a < End(h.seg[i])}

init_top(h, p, s) ==
    [h EXCEPT !.top = p, !.topsize = s, !.trim_check = TrimThreshold,
              !.chunk = WriteHead(p + s, WriteHead(p, @, s, FALSE, TRUE), TopFoot, FALSE, FALSE)]

add_segment(h, tbase, tsize, mmapped) ==
    LET i == CHOOSE j \in segment_holding(h, h.top) : TRUE
        old_end == End(h.seg[i])
        asp == old_end - TopFoot
        csp == IF asp < h.top + MinChunk THEN h.top ELSE asp
        h1 == init_top(h, tbase, tsize - TopFoot)
        fence == csp + Record
        c == WriteHead(fence, set_size_and_pinuse_of_inuse_chunk(h1.chunk, csp, Record),
                  old_end - fence, TRUE, TRUE)
        h2 == [h1 EXCEPT !.chunk = c,
                         !.seg = <<[base |-> tbase, size |-> tsize, mmapped |-> mmapped, rec |-> NULL]>>
                                 \o <<[h.seg[1] EXCEPT !.rec = csp]>> \o Tail(h.seg)]
    IN  IF csp = h.top THEN h2
        ELSE insert_chunk([h2 EXCEPT !.chunk = set_free_with_pinuse(@, h.top, csp - h.top, csp)], h.top)

(* An outcome is a state and the chunk returned in it.                     *)
Outcome(h, p) == [h |-> h, p |-> p]
Failed(h) == {Outcome(h, NULL)}

split_top(h, nb) ==
    LET p == h.top
        rest == h.topsize - nb
    IN  Outcome([h EXCEPT !.top = p + nb, !.topsize = rest,
                   !.chunk = set_size_and_pinuse_of_inuse_chunk(WriteHead(p + nb, @, rest, FALSE, TRUE), p, nb)], p)

(* Allocate from the new memory and join the rest to the segment above.    *)
prepend_alloc(h, newbase, oldbase, nb) ==
    LET p == newbase
        q == p + nb
        qsize == oldbase - newbase - nb
        h1 == [h EXCEPT !.chunk = set_size_and_pinuse_of_inuse_chunk(@, p, nb)]
        nsize == h.chunk[oldbase].size
    IN  CASE oldbase = h.top ->
                Outcome([h1 EXCEPT !.topsize = @ + qsize, !.top = q,
                                   !.chunk = WriteHead(q, @, h.topsize + qsize, FALSE, TRUE)], p)
          [] oldbase = h.dv ->
                Outcome([h1 EXCEPT !.dvsize = @ + qsize, !.dv = q,
                                   !.chunk = set_size_and_pinuse_of_free_chunk(@, q, h.dvsize + qsize)], p)
          [] oldbase \notin {h.top, h.dv} /\ ~is_inuse(h.chunk, oldbase) ->
                Outcome(insert_chunk([unlink_chunk(h1, oldbase) EXCEPT
                            !.chunk = set_free_with_pinuse(@, q, qsize + nsize, oldbase + nsize)], q), p)
          [] OTHER ->
                Outcome(insert_chunk([h1 EXCEPT !.chunk = set_free_with_pinuse(@, q, qsize, oldbase)], q), p)

-----------------------------------------------------------------------------
(* Memory from the system.  mmap places the pages anywhere it has room.    *)

Run(first, n) == first..(first + n - 1)
Places(h, n) == {first \in h.env.room : Run(first, n) \subseteq h.env.room \ h.pages}

OverLimit(h, n) == h.env.limit # 0 /\ h.footprint + n > h.env.limit

MmapAlloc(h, nb) ==
    LET n == PagesFor(nb + MmapPad)
        psize == n * Granularity - FootPad
    IN  IF OverLimit(h, n) THEN {}
        ELSE {Outcome([h EXCEPT !.chunk = WriteHead(Base(f), @, psize, FALSE, FALSE),
                                !.footprint = @ + n, !.pages = @ \cup Run(f, n)], Base(f))
                : f \in Places(h, n)}

(* The region [tbase, tsize) that was got, as the code goes on with it.    *)
UseRegion(h0, tbase, tsize, mmapped, nb) ==
    LET h == [h0 EXCEPT !.footprint = @ + tsize \div Granularity,
                        !.pages = @ \cup Run(PageOf(tbase), tsize \div Granularity)]
        above == {i \in DOMAIN h.seg : End(h.seg[i]) = tbase}
        below == {i \in DOMAIN h.seg : h.seg[i].base = tbase + tsize /\ h.seg[i].mmapped = mmapped}
        Appends(i) == h.seg[i].mmapped = mmapped /\ i \in segment_holding(h, h.top)
        Alloc(h1) == IF nb < h1.topsize THEN {split_top(h1, nb)} ELSE Failed(h1)
    IN  CASE h.top = NULL ->
                Alloc(init_top([h EXCEPT !.seg = <<[base |-> tbase, size |-> tsize, mmapped |-> mmapped, rec |-> NULL]>>,
                                         !.release_checks = MaxReleaseCheck], tbase, tsize - TopFoot))
          [] h.top # NULL /\ \E i \in above : Appends(i) ->
                LET i == CHOOSE j \in above : Appends(j)
                IN  Alloc(init_top([h EXCEPT !.seg[i].size = @ + tsize], h.top, h.topsize + tsize))
          [] h.top # NULL /\ ~(\E i \in above : Appends(i)) /\ below # {} ->
                LET i == CHOOSE j \in below : TRUE
                    oldbase == h.seg[i].base
                IN  {prepend_alloc([h EXCEPT !.seg[i].base = tbase, !.seg[i].size = @ + tsize],
                                   tbase, oldbase, nb)}
          [] OTHER -> Alloc(add_segment(h, tbase, tsize, mmapped))

(* sbrk of n pages from where the break is.                                *)
BrkRoom(h, n) == h.brk + n <= BrkPages + 1
Sbrk(h, n) == [h EXCEPT !.brk = @ + n]

sys_alloc(h, nb, use_mmap) ==
    LET asize == PagesFor(nb + TopFoot + 1)
        direct == IF use_mmap /\ nb >= MmapThreshold /\ h.topsize # 0 THEN MmapAlloc(h, nb) ELSE {}
        topseg == h.seg[CHOOSE i \in segment_holding(h, h.top) : TRUE]
        need == IF h.top = NULL THEN asize ELSE PagesFor(nb - h.topsize + TopFoot + 1)
        br == Base(h.brk)
        joins == h.top = NULL \/ br = End(topseg)
        more == IF need < asize THEN PagesFor(nb + TopFoot + 1 - need * Granularity) ELSE 0
        viaMmap(h1) ==
            IF Places(h1, asize) # {}
            THEN UNION {UseRegion(h1, Base(f), asize * Granularity, TRUE, nb) : f \in Places(h1, asize)}
            ELSE IF BrkRoom(h1, asize)
            THEN UseRegion(Sbrk(h1, asize), Base(h1.brk), asize * Granularity, FALSE, nb)
            ELSE Failed(h1)
    IN  IF direct # {} THEN direct
        ELSE IF OverLimit(h, asize) THEN Failed(h)
        ELSE IF h.noncontiguous THEN viaMmap(h)
        ELSE IF ~BrkRoom(h, need) THEN viaMmap([h EXCEPT !.noncontiguous = TRUE])
        ELSE IF joins THEN UseRegion(Sbrk(h, need), br, need * Granularity, FALSE, nb)
        ELSE IF BrkRoom(h, need + more) THEN UseRegion(Sbrk(h, need + more), br, (need + more) * Granularity, FALSE, nb)
        ELSE viaMmap([h EXCEPT !.noncontiguous = TRUE])

-----------------------------------------------------------------------------
(* Memory back to the system.  Each call of munmap and mremap may fail by  *)
(* itself: ok has the pages that a call can give back from.                *)

has_segment_link(h, s) == \E i \in DOMAIN h.seg : h.seg[i].rec \in s.base..(End(s) - 1)

Unused(h, s) ==
    /\ s.mmapped /\ ~is_inuse(h.chunk, s.base)
    /\ s.base + h.chunk[s.base].size >= End(s) - TopFoot

ReleaseSegment(h, s, ok) ==
    LET p == s.base
        h1 == IF p = h.dv THEN no_dv(h) ELSE [h EXCEPT !.tree = unlink_large_chunk(@, p)]
    IN  IF Unused(h, s)
        THEN IF PageOf(s.base) \in ok
             THEN [h1 EXCEPT !.seg = SelectSeq(@, LAMBDA x : x.base # s.base),
                             !.footprint = @ - s.size \div Granularity,
                             !.pages = @ \ Run(PageOf(s.base), s.size \div Granularity),
                             !.chunk = Forget(@, s.base, End(s))]
             ELSE [h1 EXCEPT !.tree = insert_large_chunk(@, Sizes(h1.chunk), p)]
        ELSE h

release_unused_segments(h, ok) ==
    [FoldLeft(LAMBDA x, s : ReleaseSegment(x, s, ok), h, Tail(h.seg))
        EXCEPT !.release_checks = Max({Len(h.seg) - 1, MaxReleaseCheck})]

sys_trim(h, pad, ok) ==
    LET room == pad + TopFoot
        extra == (PagesFor(h.topsize - room) - 1) * Granularity
        i == CHOOSE j \in segment_holding(h, h.top) : TRUE
        s == h.seg[i]
        shrinks == /\ h.topsize > room /\ extra > 0
                   /\ IF s.mmapped THEN s.size >= extra /\ ~has_segment_link(h, s) /\ PageOf(End(s) - extra) \in ok
                      ELSE Base(h.brk) = End(s)
        n == extra \div Granularity
        h1 == IF ~shrinks THEN h
              ELSE init_top([h EXCEPT !.seg[i].size = @ - extra, !.footprint = @ - n,
                                      !.pages = @ \ Run(PageOf(End(s) - extra), n),
                                      !.brk = IF s.mmapped THEN @ ELSE @ - n,
                                      !.chunk = Forget(@, End(s) - extra, End(s))],
                            h.top, h.topsize - extra)
        h2 == release_unused_segments(h1, ok)
    IN  IF h.top = NULL THEN h
        ELSE IF h2.footprint = h.footprint /\ h2.topsize > h2.trim_check
        THEN [h2 EXCEPT !.trim_check = Never] ELSE h2

-----------------------------------------------------------------------------
(* free *)

(* Where the free chunk that p becomes a part of begins.                   *)
Landing(h, p) == IF h.chunk[p].pinuse THEN p ELSE p - h.chunk[p].foot

(* dispose_chunk, which dlfree repeats: join p with its free neighbours.   *)
dispose_chunk(h, p0) ==
    LET c == h.chunk
        p == Landing(h, p0)
        back == p # p0
        next == p0 + c[p0].size
        psize == next - p
        h1 == IF back /\ p # h.dv THEN unlink_chunk(h, p) ELSE h
        joined == [unlink_chunk(h1, next) EXCEPT
                      !.chunk = set_size_and_pinuse_of_free_chunk(@, p, psize + c[next].size)]
        alone == [h1 EXCEPT !.chunk = set_free_with_pinuse(@, p, psize, next)]
    IN  CASE c[next].cinuse /\ p = h.dv -> [alone EXCEPT !.dvsize = psize]
          [] c[next].cinuse /\ p # h.dv -> insert_chunk(alone, p)
          [] next = h.top ->
                [IF p = h.dv THEN no_dv(h1) ELSE h1 EXCEPT
                    !.topsize = @ + psize, !.top = p,
                    !.chunk = WriteHead(p, @, h.topsize + psize, FALSE, TRUE)]
          [] next = h.dv ->
                [h1 EXCEPT !.dvsize = @ + psize, !.dv = p,
                           !.chunk = set_size_and_pinuse_of_free_chunk(@, p, h.dvsize + psize)]
          [] OTHER -> IF p = h.dv THEN [joined EXCEPT !.dvsize = psize + c[next].size]
                      ELSE insert_chunk(joined, p)

(* The pages of the chunk p that mmap gave: from where they begin, which   *)
(* is in front of an aligned chunk, to the foot.                           *)
MmappedPages(h, p) ==
    Run(PageOf(p - h.chunk[p].foot), PagesFor(h.chunk[p].foot + h.chunk[p].size + FootPad))

(* Broken MunmapChunk: a chunk that could not be unmapped is not counted.  *)
MunmapChunkUncounted(h, p, ok) ==
    LET unmaps == Min(MmappedPages(h, p)) \in ok
    IN  [h EXCEPT !.footprint = @ - Cardinality(MmappedPages(h, p)),
                  !.pages = IF unmaps THEN @ \ MmappedPages(h, p) ELSE @,
                  !.chunk = IF unmaps THEN Forget(@, p, p + 1) ELSE @]

MunmapChunk(h, p, ok) ==
    IF Min(MmappedPages(h, p)) \in ok
    THEN [h EXCEPT !.footprint = @ - Cardinality(MmappedPages(h, p)),
                   !.pages = @ \ MmappedPages(h, p), !.chunk = Forget(@, p, p + 1)]
    ELSE h

dlfree(h, p0, ok) ==
    LET d == dispose_chunk(h, p0)
        p == Landing(h, p0)
        binned == p \notin {d.top, d.dv} /\ ~is_small(d.chunk[p].size)
    IN  IF is_mmapped(h.chunk, p0) THEN MunmapChunk(h, p0, ok)
        ELSE IF p = d.top THEN IF d.topsize > d.trim_check THEN sys_trim(d, 0, ok) ELSE d
        ELSE IF ~binned THEN d
        ELSE IF d.release_checks = 1 THEN release_unused_segments(d, ok)
        ELSE [d EXCEPT !.release_checks = @ - 1]

-----------------------------------------------------------------------------
(* malloc *)

to_dv(h, r) == replace_dv(h, r, h.chunk[r].size)

(* The free chunk v, in no bin any more, becomes the chunk for nb; a       *)
(* remainder that can be a chunk is made free, and becomes the designated  *)
(* victim for a small request and goes to its bin for a large one.         *)
Carve(h, v, nb) ==
    LET s == h.chunk[v].size
        r == v + nb
        cut == [h EXCEPT !.chunk = set_size_and_pinuse_of_free_chunk(
                                       set_size_and_pinuse_of_inuse_chunk(@, v, nb), r, s - nb)]
    IN  IF s - nb < MinChunk THEN [h EXCEPT !.chunk = set_inuse_and_pinuse(@, v, s)]
        ELSE IF is_small(nb) THEN to_dv(cut, r) ELSE insert_chunk(cut, r)

(* What small nb takes from a bin of larger small chunks.                  *)
LargerSmall(h, nb) == {S \in DOMAIN h.small : S > nb /\ h.small[S] # << >>}

FromSmallbin(h, nb, S) ==
    LET p == h.small[S][1]
    IN  Outcome(Carve(unlink_first_small_chunk(h, S), p, nb), p)

FromTree(h, nb, v) ==
    Outcome(Carve([h EXCEPT !.tree = unlink_large_chunk(@, v)], v, nb), v)

(* Broken FromDv: the designated victim stays where it is. *)
FromDvStays(h, nb) ==
    Outcome([h EXCEPT !.chunk = set_inuse_and_pinuse(@, h.dv, h.dvsize)], h.dv)

FromDv(h, nb) ==
    LET p == h.dv
        r == p + nb
        rest == h.dvsize - nb
    IN  Outcome(IF rest >= MinChunk
                THEN [h EXCEPT !.dv = r, !.dvsize = rest,
                               !.chunk = set_size_and_pinuse_of_inuse_chunk(
                                             set_size_and_pinuse_of_free_chunk(@, r, rest), p, nb)]
                ELSE [no_dv(h) EXCEPT !.chunk = set_inuse_and_pinuse(@, p, h.dvsize)], p)

dlmalloc(h, nb, use_mmap) ==
    LET large == tmalloc_large(h.tree, Sizes(h.chunk), nb, h.dvsize)
        dvFits == nb <= h.dvsize
    IN  IF is_small(nb) /\ h.small[nb] # << >>
        THEN LET p == h.small[nb][1]
             IN  {Outcome([unlink_first_small_chunk(h, nb) EXCEPT
                             !.chunk = set_inuse_and_pinuse(@, p, nb)], p)}
        ELSE IF is_small(nb) /\ ~dvFits /\ LargerSmall(h, nb) # {}
        THEN {FromSmallbin(h, nb, Min(LargerSmall(h, nb)))}
        ELSE IF is_small(nb) /\ ~dvFits /\ DOMAIN h.tree # {}
        THEN {FromTree(h, nb, tmalloc_small(h.tree, Sizes(h.chunk)))}
        ELSE IF ~is_small(nb) /\ large # {}
        THEN {FromTree(h, nb, v) : v \in large}
        ELSE IF dvFits THEN {FromDv(h, nb)}
        ELSE IF nb < h.topsize THEN {split_top(h, nb)}
        ELSE sys_alloc(h, nb, use_mmap)

-----------------------------------------------------------------------------
(* realloc *)

(* p, in use and of size s, is cut to nb and the rest disposed of.         *)
CutTo(h, p, nb, s) ==
    dispose_chunk([h EXCEPT !.chunk = set_inuse(set_inuse(@, p, nb), p + nb, s - nb)], p + nb)

mmap_resize(h, p, nb, can_move) ==
    LET c == h.chunk[p]
        old == MmappedPages(h, p)
        new == PagesFor(nb + MmapPad)
        places == {f \in (IF can_move THEN h.env.room ELSE {Min(old)}) :
                      Run(f, new) \subseteq h.env.room \ (h.pages \ old)}
    IN  IF is_small(nb) THEN Failed(h)
        ELSE IF c.size > nb /\ c.size - nb <= 2 * Granularity THEN {Outcome(h, p)}
        ELSE {Outcome([h EXCEPT !.footprint = @ + new - Cardinality(old),
                                !.pages = (@ \ old) \cup Run(f, new),
                                !.chunk = [WriteHead(Base(f) + c.foot, Forget(@, p, p + 1),
                                                     new * Granularity - c.foot - FootPad, FALSE, FALSE)
                                              EXCEPT ![Base(f) + c.foot].foot = c.foot]],
                      Base(f) + c.foot) : f \in places}
             \cup IF places = {} \/ h.env.fails THEN Failed(h) ELSE {}

(* The chunk behind p is free: p grows into it.                            *)
GrowInto(h, p, nb) ==
    LET c == h.chunk
        next == p + c[p].size
        both == c[p].size + c[next].size
        h1 == IF next = h.dv THEN h ELSE unlink_chunk(h, next)
        whole == [h1 EXCEPT !.chunk = set_inuse(@, p, both)]
    IN  CASE next = h.dv /\ both - nb >= MinChunk ->
                [h EXCEPT !.dv = p + nb, !.dvsize = both - nb,
                          !.chunk = set_size_and_pinuse_of_free_chunk(set_inuse(@, p, nb), p + nb, both - nb)]
          [] next = h.dv /\ both - nb < MinChunk -> no_dv(whole)
          [] next # h.dv /\ both - nb < MinChunk -> whole
          [] OTHER -> CutTo(h1, p, nb, both)

try_realloc_chunk(h, p, nb, can_move) ==
    LET c == h.chunk
        oldsize == c[p].size
        next == p + oldsize
        newtop == p + nb
        topsize == oldsize + h.topsize - nb
    IN  CASE is_mmapped(c, p) -> mmap_resize(h, p, nb, can_move)
          [] ~is_mmapped(c, p) /\ oldsize >= nb ->
                {Outcome(IF oldsize - nb >= MinChunk THEN CutTo(h, p, nb, oldsize) ELSE h, p)}
          [] ~is_mmapped(c, p) /\ oldsize < nb /\ next = h.top /\ topsize > 0 ->
                {Outcome([h EXCEPT !.top = newtop, !.topsize = topsize,
                                   !.chunk = WriteHead(newtop, set_inuse(@, p, nb), topsize, FALSE, TRUE)], p)}
          [] ~is_mmapped(c, p) /\ oldsize < nb /\ next # h.top /\ ~c[next].cinuse
                /\ oldsize + c[next].size >= nb -> {Outcome(GrowInto(h, p, nb), p)}
          [] OTHER -> Failed(h)

-----------------------------------------------------------------------------
(* memalign: give back what is before the aligned place, and the rest.     *)

AlignedIn(p, al) ==
    LET br == ((p + 1 + al - 1) \div al) * al - 1
    IN  IF br - p >= MinChunk THEN br ELSE br + al

AlignChunk(h, p, al) ==
    LET c == h.chunk
        newp == AlignedIn(p, al)
        lead == newp - p
        rest == c[p].size - lead
    IN  IF (p + 1) % al = 0 THEN Outcome(h, p)
        ELSE IF is_mmapped(c, p)
        THEN Outcome([h EXCEPT !.chunk = [WriteHead(newp, Forget(c, p, p + 1), rest, FALSE, FALSE)
                                             EXCEPT ![newp].foot = c[p].foot + lead]], newp)
        ELSE Outcome(dispose_chunk([h EXCEPT !.chunk = set_inuse(
                                        set_inuse(WriteHead(newp, c, rest, FALSE, FALSE), newp, rest), p, lead)], p), newp)

GiveBackSpare(o, nb) ==
    LET psize == o.h.chunk[o.p].size
    IN  IF ~is_mmapped(o.h.chunk, o.p) /\ psize > nb + MinChunk
        THEN Outcome(CutTo(o.h, o.p, nb, psize), o.p) ELSE o

internal_memalign(h, al, nb) ==
    {IF o.p = NULL THEN o ELSE GiveBackSpare(AlignChunk(o.h, o.p, al), nb)
        : o \in dlmalloc(h, nb + al + MinChunk, TRUE)}

-----------------------------------------------------------------------------
(* independent_calloc and bulk_free *)

(* n chunks for nb, cut from one that mmap must not give, and unless the   *)
(* caller has one a chunk for the array of them; what malloc gave too much *)
(* goes to the last.                                                       *)
Elements(p, n, nb) == [k \in 1..n |-> p + (k - 1) * nb]

ialloc(h, n, nb, array) ==
    {IF o.p = NULL THEN o ELSE
        LET p == o.p
            rest == o.h.chunk[p].size - n * nb
            last == IF array THEN nb ELSE nb + rest
            c == IF array THEN set_size_and_pinuse_of_inuse_chunk(o.h.chunk, p + n * nb, rest) ELSE o.h.chunk
            Cut(d, q) == set_size_and_pinuse_of_inuse_chunk(d, q, IF q = p + (n - 1) * nb THEN last ELSE nb)
        IN  Outcome([o.h EXCEPT !.chunk = FoldLeft(Cut, c, Elements(p, n, nb))], p)
        : o \in dlmalloc(h, n * nb + (IF array THEN MinChunk ELSE 0), FALSE)}

(* Chunks that follow each other in the array and in memory are freed as   *)
(* one.                                                                    *)
BulkFreeOne(acc, i, array, ok) ==
    LET h == acc.h
        p == IF acc.p # NULL THEN acc.p ELSE array[i]
        next == p + h.chunk[p].size
    IN  IF i < Len(array) /\ array[i + 1] = next
        THEN Outcome([h EXCEPT !.chunk = set_inuse(@, p, h.chunk[p].size + h.chunk[next].size)], p)
        ELSE Outcome(IF is_mmapped(h.chunk, p) THEN MunmapChunk(h, p, ok) ELSE dispose_chunk(h, p), NULL)

internal_bulk_free(h, array, ok) ==
    LET d == FoldLeft(LAMBDA acc, i : BulkFreeOne(acc, i, array, ok), Outcome(h, NULL),
                      [i \in 1..Len(array) |-> i]).h
    IN  IF d.topsize > d.trim_check THEN sys_trim(d, 0, ok) ELSE d

-----------------------------------------------------------------------------
(* The application.  It frees only what it holds. *)

MunmapWorks == IF m.env.fails THEN SUBSET m.env.room ELSE {m.env.room}

With(f, p, nb) == [x \in DOMAIN f \cup {p} |-> IF x = p THEN nb ELSE f[x]]
Without(f, gone) == [x \in DOMAIN f \ gone |-> f[x]]
Room(n) == Cardinality(DOMAIN live) + n <= m.env.blocks

Take(o, nb) == m' = o.h /\ live' = IF o.p = NULL THEN live ELSE With(live, o.p, nb)

Malloc(nb) == Room(1) /\ \E o \in dlmalloc(m, nb, TRUE) : Take(o, nb)

Memalign(al, nb) == Room(1) /\ \E o \in internal_memalign(m, al, nb) : Take(o, nb)

Free(p) ==
    /\ \E ok \in MunmapWorks : m' = dlfree(m, p, ok)
    /\ live' = Without(live, {p})

(* dlrealloc, which moves the block when it cannot be resized where it is. *)
Realloc(p, nb) ==
    \E o \in try_realloc_chunk(m, p, nb, TRUE) :
        \/ o.p # NULL /\ m' = o.h /\ live' = With(Without(live, {p}), o.p, nb)
        \/ /\ o.p = NULL
           /\ \E o2 \in dlmalloc(m, nb, TRUE), ok \in MunmapWorks :
                 IF o2.p = NULL THEN m' = o2.h /\ UNCHANGED live
                 ELSE m' = dlfree(o2.h, p, ok) /\ live' = With(Without(live, {p}), o2.p, nb)

ReallocInPlace(p, nb) ==
    \E o \in try_realloc_chunk(m, p, nb, FALSE) :
        m' = o.h /\ live' = IF o.p = p THEN With(live, p, nb) ELSE live

IndependentCalloc(n, nb, array) ==
    /\ Room(IF array THEN n + 1 ELSE n)
    /\ \E o \in ialloc(m, n, nb, array) :
          /\ m' = o.h
          /\ LET new == ToSet(Elements(o.p, n, nb)) \cup (IF array THEN {o.p + n * nb} ELSE {})
             IN  live' = IF o.p = NULL THEN live
                         ELSE [x \in DOMAIN live \cup new |->
                                  IF x \notin new THEN live[x]
                                  ELSE IF x = o.p + n * nb THEN MinChunk ELSE nb]

BulkFree(array) ==
    /\ \E ok \in MunmapWorks : m' = internal_bulk_free(m, array, ok)
    /\ live' = Without(live, ToSet(array))

MallocTrim ==
    /\ m.top # NULL
    /\ \E ok \in MunmapWorks : m' = sys_trim(m, 0, ok)
    /\ UNCHANGED live

(* Someone else in the process moves the break.                            *)
ForeignSbrk ==
    /\ BrkRoom(m, 1)
    /\ m' = Sbrk(m, 1)
    /\ UNCHANGED live

Pairs == {array \in (DOMAIN live) \X (DOMAIN live) : array[1] # array[2]}

HeapNext ==
    \/ \E nb \in Requests : Malloc(nb) \/ \E al \in Alignments : Memalign(al, nb)
    \/ \E p \in DOMAIN live : Free(p) \/ \E nb \in Requests : Realloc(p, nb) \/ ReallocInPlace(p, nb)
    \/ \E array \in BOOLEAN : IndependentCalloc(2, MinChunk + 1, array)
    \/ \E array \in Pairs : BulkFree(array)
    \/ MallocTrim \/ ForeignSbrk

HeapSpec == HeapInit /\ [][HeapNext]_heapVars

-----------------------------------------------------------------------------
Fields == [size : Nat, cinuse : BOOLEAN, pinuse : BOOLEAN, foot : Nat]

(* The chunks of the segments, without the fenceposts and the space that   *)
(* is kept behind top, and the chunks that mmap gave.                      *)
Holds(s) == s.base..(End(s) - 1)
Fences == {m.seg[i].rec + Record : i \in {j \in DOMAIN m.seg : m.seg[j].rec # NULL}}
MmappedChunks == {a \in DOMAIN m.chunk : is_mmapped(m.chunk, a)} \ {m.top + m.topsize}
Chunks == DOMAIN m.chunk \ (Fences \cup MmappedChunks \cup {m.top + m.topsize})
FreeChunks == {a \in Chunks : ~m.chunk[a].cinuse}
Records == {m.seg[i].rec : i \in DOMAIN m.seg} \ {NULL}

(* The chunks of a segment follow each other without a gap, each says of   *)
(* itself and of the one before it what is so, and no two free ones are    *)
(* neighbours (traverse_and_check).                                        *)
HeapTiled ==
    LET headers == DOMAIN m.chunk \ MmappedChunks IN
    /\ \A i \in DOMAIN m.seg : m.seg[i].base \in Chunks /\ m.chunk[m.seg[i].base].pinuse
    /\ \A a \in Chunks :
          LET chunk == m.chunk[a]
              next == a + chunk.size
          IN  /\ next \in headers
              /\ \A b \in DOMAIN m.chunk : ~(a < b /\ b < next)
              /\ \E i \in DOMAIN m.seg : {a, next} \subseteq Holds(m.seg[i])
              /\ m.chunk[next].pinuse = chunk.cinuse
              /\ ~chunk.cinuse => chunk.pinuse
              /\ ~chunk.cinuse /\ a # m.top => m.chunk[next].foot = chunk.size
              /\ a # m.top => chunk.size >= MinChunk

(* Every free chunk is in exactly one place: top, the designated victim,   *)
(* or the bin of its size (bin_find, do_check_malloc_state).               *)
BinnedOnce ==
    LET small == UNION {ToSet(m.small[S]) : S \in DOMAIN m.small}
        large == LargeChunks(m.tree)
        special == {m.dv, m.top} \ {NULL}
        free == FreeChunks
    IN  /\ free = small \cup large \cup special
        /\ Cardinality(free) = Cardinality(special)
              + SumFunction([S \in DOMAIN m.small |-> Len(m.small[S])])
              + SumFunction([d \in DOMAIN m.tree |-> Len(m.tree[d])])
        /\ \A S \in DOMAIN m.small : \A a \in ToSet(m.small[S]) : m.chunk[a].size = S
        /\ \A d \in DOMAIN m.tree : \A a \in ToSet(m.tree[d]) : d = PathNode(m.chunk[a].size, Len(d) - 1)
        /\ m.dv # NULL => m.dv # m.top /\ m.dvsize = m.chunk[m.dv].size
        /\ m.dv = NULL => m.dvsize = 0
        /\ m.top # NULL => m.topsize = m.chunk[m.top].size

(* The pages of the heap are those of its segments and mmapped chunks, and *)
(* as many as footprint says; no segment record is in memory that has been *)
(* given back, and top is in the newest segment.                           *)
PagesOf(a, n) == {PageOf(x) : x \in a..(a + n - 1)}

PagesOwned ==
    LET segs == [i \in DOMAIN m.seg |-> PagesOf(m.seg[i].base, m.seg[i].size)]
        mmaps == [a \in MmappedChunks |-> MmappedPages(m, a)]
    IN  /\ m.pages = UNION Range(segs) \cup UNION Range(mmaps)
        /\ m.footprint = Cardinality(m.pages)
        /\ m.footprint = SumFunction([i \in DOMAIN segs |-> Cardinality(segs[i])])
                        + SumFunction([a \in MmappedChunks |-> Cardinality(mmaps[a])])
        /\ \A i \in DOMAIN m.seg : i > 1 => m.seg[i].rec \in Chunks \cap Holds(m.seg[i])
        /\ m.top # NULL => 1 \in segment_holding(m, m.top)

(* malloc.c promises that no memory beyond footprint_limit is obtained     *)
(* from the system.  realloc of a chunk that mmap gave does not look.      *)
WithinFootprintLimit == m.env.limit # 0 => m.footprint <= m.env.limit

(* The blocks are disjoint, in memory that was not given back and is not   *)
(* part of a free chunk or of the allocator's own records, and no call     *)
(* changes a block but the one it is for.                                  *)
Own == (FreeChunks \cup Records \cup Fences \cup {m.top + m.topsize}) \cap DOMAIN m.chunk

Usable == UNION {Base(page)..(Base(page + 1) - 1) : page \in m.pages}
              \ UNION {a..(a + m.chunk[a].size - 1) : a \in Own}

Promise == INSTANCE Allocator WITH blocks <- live, owned <- Usable

ImplementsAllocator == Promise!Spec
=============================================================================
