----------------------------- MODULE ImageWork -----------------------------
(****************************************************************************)
(* What a command buffer does to images, as Vulkan runs it: barriers move   *)
(* an image from a layout to another, passes draw into attachments and read *)
(* other images, copies and blits move what an image shows.                 *)
(*                                                                          *)
(* An image is [layout, shows, copyable]: what it shows is a set of things  *)
(* that were drawn, whose pixels are left out, and copyable is whether it   *)
(* was created with TRANSFER_SRC. The GPU does what it can with a command   *)
(* that breaks a rule, and the rule and the image are kept. Access masks    *)
(* and stages are left out: lists here run one after the other.             *)
(****************************************************************************)
EXTENDS Integers, Sequences, FiniteSets, SequencesExt

Garbage == {<<"garbage", 0>>}

\* transitionImage: the old layout is the one the code names.
Barrier(i, from, to) == [op |-> "barrier", on |-> {i}, reads |-> {}, from |-> from, to |-> to]

\* A pass: "clear" and "load" are load operations, and "cover" is DONT_CARE
\* under a triangle that covers every pixel.
Pass(targets, load, reads, paints) ==
    [op |-> "pass", on |-> targets, reads |-> reads, load |-> load, paints |-> paints]

\* From the staging buffer, between images, and to the staging buffer.
Upload(i, what) == [op |-> "upload", on |-> {i}, reads |-> {}, what |-> what]
Blit(from, to) == [op |-> "blit", on |-> {to}, reads |-> {from}]
Copy(i) == [op |-> "copy", on |-> {}, reads |-> {i}]

Seen(images, read) == UNION {images[i].shows : i \in read \cap DOMAIN images}

Painted(images, c, i) ==
    CASE c.op = "barrier" ->
           [images[i] EXCEPT !.layout = c.to, !.shows = IF c.from = "undefined" THEN Garbage ELSE @]
      [] c.op = "pass" ->
           [images[i] EXCEPT !.shows = c.paints \cup Seen(images, c.reads) \cup
                                       (IF c.load = "load" THEN @ ELSE {})]
      [] c.op = "upload" -> [images[i] EXCEPT !.shows = c.what]
      [] c.op = "blit" -> [images[i] EXCEPT !.shows = Seen(images, c.reads)]

\* The layouts a command wants of what it writes and of what it reads.
Into(images, c) ==
    CASE c.op = "barrier" -> IF c.from = "undefined" THEN {images[i].layout : i \in c.on} ELSE {c.from}
      [] c.op = "pass" -> {"color", "depth"}
      [] OTHER -> {"destination"}
ReadLayout(c) == IF c.op = "pass" THEN "sampled" ELSE "source"

Broken(images, c) ==
    {<<"gone", i>> : i \in (c.on \cup c.reads) \ DOMAIN images}
    \cup {<<"layout", i>> : i \in {j \in c.on \cap DOMAIN images :
                                      images[j].layout \notin Into(images, c)}}
    \cup {<<"layout", i>> : i \in {j \in c.reads \cap DOMAIN images :
                                      images[j].layout # ReadLayout(c)}}
    \cup {<<"usage", i>> : i \in {j \in c.reads \cap DOMAIN images :
                                     c.op \in {"copy", "blit"} /\ ~images[j].copyable}}

\* What the images are after a command, the rules broken, and what reached the
\* staging buffer.
RunOne(s, c) ==
    [images |-> [i \in DOMAIN s.images |->
                    IF i \in c.on THEN Painted(s.images, c, i) ELSE s.images[i]],
     broken |-> s.broken \cup Broken(s.images, c),
     staged |-> IF c.op = "copy" THEN Seen(s.images, c.reads) ELSE s.staged]

\* One list from its first command to its last.
After(s, work) ==
    LET after[n \in 0 .. Len(work)] == IF n = 0 THEN s ELSE RunOne(after[n - 1], work[n])
    IN  after[Len(work)]
Ran(start, work) == After([images |-> start, broken |-> {}, staged |-> {}], work)

\* ColorImage::create and DepthImage::create leave an image in a layout.
Color(copyable) == [layout |-> "sampled", shows |-> Garbage, copyable |-> copyable]
Depth == [layout |-> "depth_stencil", shows |-> Garbage, copyable |-> FALSE]
=============================================================================
