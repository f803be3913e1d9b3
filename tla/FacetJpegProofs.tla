-------------------------- MODULE FacetJpegProofs --------------------------
(* What holds of the JPEG decoder for every file, every size of image and    *)
(* whichever allocation fails: it frees each buffer exactly once, and every  *)
(* access stays in its buffer.                                               *)
EXTENDS FacetJpeg, TLAPS

-----------------------------------------------------------------------------
(* The decoder and its file.                                                 *)

\* The decoder reads one file, and does not go back to before it began.
LEMMA FileKept ==
  ASSUME jNext
  PROVE  file' = file /\ lpc' # "idle"
<1> DEFINE On == file' = file /\ lpc' # "idle"
           To(pc) == \E b, s, r : Goes(pc, b, s, r)
<1>1. jpeg_fail => On
  BY DEF jpeg_fail, jpeg_stop, jvars
<1>2. ASSUME NEW h, NEW o, jpeg_stop("outofmem", h, o) PROVE On
  BY <1>2 DEF jpeg_stop, jvars
<1>3. To("ac") \/ To("block") \/ To("refine") \/ To("advance") => On
  BY DEF Goes
<1>4. file' = file /\ lpc' = lpc /\ lpc \in {"image", "finish", "line"} => On
  OBVIOUS
<1>5. /\ file' = file
      /\ lpc' \in {"fail", "outofmem", "header", "padding", "image", "scan", "finish", "output", "line", "ok"}
      => On
  OBVIOUS
<1> SUFFICES On
  BY Zenon DEF On
<1> HIDE DEF On, To
<1>6. CASE jpeg_load
  <2>1. file' = file /\ (lpc' = "fail" \/ lpc' = "outofmem" \/ lpc' = "header")
    BY <1>6, Zenon DEF jpeg_load
  <2> QED BY <1>5, <2>1, Zenon
<1>7. CASE header_segment \/ padding
  <2>1. jpeg_fail \/ (file' = file /\ (lpc' = "padding" \/ lpc' = "header"))
    BY <1>7, Zenon DEF header_segment, padding
  <2> QED BY <1>1, <1>5, <2>1, Zenon
<1>8. CASE frame_header
  <2>1. jpeg_fail \/ (\E h, o : jpeg_stop("outofmem", h, o)) \/ (file' = file /\ lpc' = "image")
    BY <1>8, Zenon DEF frame_header, free_jpeg_components
  <2> QED BY <1>1, <1>2, <1>5, <2>1, Zenon
<1>9. CASE scan_header
  <2>1. jpeg_fail \/ (file' = file /\ lpc' = "scan")
    BY <1>9, Zenon DEF scan_header
  <2> QED BY <1>1, <1>5, <2>1, Zenon
<1>10. CASE line_count \/ image_segment \/ end_of_image
  <2>1. /\ lpc = "image"
        /\ jpeg_fail \/ (file' = file /\ (lpc' = lpc \/ lpc' = "output" \/ lpc' = "finish"))
    BY <1>10, Zenon DEF line_count, image_segment, end_of_image, lvars, jvars
  <2> QED BY <1>1, <1>4, <1>5, <2>1, Zenon
<1>11. CASE decode_block_dc \/ decode_block_ac
  <2>1. jpeg_fail \/ To("ac") \/ To("block")
    BY <1>11, Zenon DEF decode_block_dc, decode_block_ac, BaselineAc, To
  <2> QED BY <1>1, <1>3, <2>1, Zenon
<1>12. CASE decode_block_prog_dc \/ decode_block_prog_ac
  <2>1. jpeg_fail \/ To("ac") \/ To("block") \/ To("refine") \/ To("advance")
    BY <1>12, Zenon DEF decode_block_prog_dc, decode_block_prog_ac, To
  <2> QED BY <1>1, <1>3, <2>1, Zenon
<1>13. CASE prog_ac_first \/ prog_ac_refine
  <2>1. jpeg_fail \/ To("ac") \/ To("block") \/ To("refine") \/ To("advance")
    BY <1>13, Zenon DEF prog_ac_first, prog_ac_refine, ProgressiveAc, RefinementAc, To
  <2> QED BY <1>1, <1>3, <2>1, Zenon
<1>14. CASE prog_ac_advance
  <2>1. To("ac") \/ To("block") \/ To("refine") \/ To("advance")
    BY <1>14, Zenon DEF prog_ac_advance, To
  <2> QED BY <1>3, <2>1, Zenon
<1>15. CASE next_block \/ scan_end
  <2>1. file' = file /\ (lpc' = "scan" \/ lpc' = "image")
    BY <1>15, Zenon DEF next_block, scan_end
  <2> QED BY <1>5, <2>1, Zenon
<1>16. CASE jpeg_finish
  <2>1. lpc = "finish" /\ file' = file /\ (lpc' = lpc \/ lpc' = "output")
    BY <1>16, Zenon DEF jpeg_finish
  <2> QED BY <1>4, <1>5, <2>1, Zenon
<1>17. CASE start_output
  <2>1. (\E h, o : jpeg_stop("outofmem", h, o)) \/ (file' = file /\ lpc' = "line")
    BY <1>17, Zenon DEF start_output
  <2> QED BY <1>2, <1>5, <2>1, Zenon
<1>18. CASE output_line \/ output_done
  <2>1. file' = file /\ ((lpc = "line" /\ lpc' = lpc) \/ lpc' = "ok")
    BY <1>18, Zenon DEF output_line, output_done, jvars
  <2> QED BY <1>4, <1>5, <2>1, Zenon
<1> QED
  BY <1>6, <1>7, <1>8, <1>9, <1>10, <1>11, <1>12, <1>13, <1>14, <1>15, <1>16, <1>17, <1>18, Zenon DEF jNext

-----------------------------------------------------------------------------
(* The buffers of the loader.                                                *)

\* Just the buffers of S are allocated, each once.
Holds(h, S) == h = [b \in JBuffers |-> IF b \in S THEN 1 ELSE 0]

State == <<"jpeg", 0>>
Result == <<"output", 0>>

\* The steps between the frame header and the output.
Decoding == {"image", "scan", "ac", "refine", "advance", "block", "finish", "output"}

\* What is allocated at each step.  own holds what stbi__cleanup_jpeg frees: the
\* planes and coefficients of the frame, and then the line buffers; never the
\* state or the result.
HeapInv ==
  /\ lpc \in {"idle", "test", "header", "padding", "line", "ok", "fail", "outofmem"} \cup Decoding
  /\ State \notin own /\ Result \notin own
  /\ lpc \in Decoding => \A n : <<"linebuf", n>> \notin own
  /\ lpc \in {"idle", "test", "fail", "outofmem"} => own = {} /\ Holds(heap, {})
  /\ lpc \in {"header", "padding"} => own = {} /\ Holds(heap, {State})
  /\ lpc \in Decoding => Holds(heap, own \cup {State})
  /\ lpc = "line" => Holds(heap, own \cup {State, Result})
  /\ lpc = "ok" => own = {} /\ (Holds(heap, {}) \/ Holds(heap, {Result}))

\* Alloc of buffers that are not allocated.
LEMMA HoldsMore ==
  ASSUME NEW h, NEW S, NEW T, Holds(h, S), S \cap T = {}
  PROVE  Holds(Alloc(h, T), S \cup T)
BY DEF Holds, Alloc

\* Free of buffers that are.
LEMMA HoldsLess ==
  ASSUME NEW h, NEW S, NEW T, Holds(h, S), T \subseteq S
  PROVE  Holds(Free(h, T), S \ T)
BY DEF Holds, Free

\* jpeg_stop with the pointers that are set and the state leaves nothing.
LEMMA StopKeeps ==
  ASSUME NEW h, NEW o, Holds(h, o \cup {State}), NEW reason \in {"fail", "outofmem"},
         jpeg_stop(reason, h, o)
  PROVE  HeapInv'
<1>1. Holds(heap', {})
  <2> DEFINE S == o \cup {State}
  <2>1. S \ S = {}
    BY Zenon
  <2> HIDE DEF S
  <2>2. Holds(Free(h, S), S \ S)
    BY HoldsLess, Zenon DEF S
  <2> QED BY <2>1, <2>2, Zenon DEF jpeg_stop, State, S
<1>2. own' = {} /\ lpc' \in {"fail", "outofmem"}
  BY Zenon DEF jpeg_stop
<1> QED BY <1>1, <1>2, Zenon DEF HeapInv, Decoding

\* An error anywhere between the headers and the end of the last scan.
LEMMA FailKeeps ==
  ASSUME HeapInv, lpc \in {"header", "padding"} \cup Decoding, jpeg_fail
  PROVE  HeapInv'
<1>1. Holds(heap, own \cup {State})
  <2>1. {} \cup {State} = {State}
    BY Zenon
  <2> QED BY <2>1, Zenon DEF HeapInv
<1> QED BY <1>1, StopKeeps, Zenon DEF jpeg_fail

\* A step of the decoder that allocates and frees nothing.
LEMMA DecodeKeeps ==
  ASSUME HeapInv, lpc \in Decoding, lpc' \in Decoding, UNCHANGED <<heap, own>>
  PROVE  HeapInv'
BY Zenon DEF HeapInv, Decoding

\* The same before the frame.
LEMMA HeaderKeeps ==
  ASSUME HeapInv, lpc \in {"header", "padding"}, lpc' \in {"header", "padding"},
         UNCHANGED <<heap, own>>
  PROVE  HeapInv'
BY Zenon DEF HeapInv, Decoding

\* stbi__jpeg_test and the start of stbi__jpeg_load: the state is allocated.
LEMMA LoadKeeps == HeapInv /\ jpeg_load => HeapInv'
<1> SUFFICES ASSUME HeapInv, jpeg_load PROVE HeapInv'
  BY Zenon
<1>1. lpc = "test" /\ own' = own /\ own = {} /\ Holds(heap, {})
  BY Zenon DEF jpeg_load, HeapInv
<1>2. \/ lpc' \in {"fail", "outofmem"} /\ heap' = heap
      \/ lpc' = "header" /\ heap' = Alloc(heap, {State})
  BY Zenon DEF jpeg_load, State
<1>3. Holds(Alloc(heap, {State}), {State})
  <2>1. {} \cap {State} = {} /\ {} \cup {State} = {State}
    BY Zenon
  <2>2. Holds(Alloc(heap, {State}), {} \cup {State})
    BY <1>1, <2>1, HoldsMore, Zenon
  <2> QED BY <2>1, <2>2, Zenon
<1> QED BY <1>1, <1>2, <1>3, Zenon DEF HeapInv, Decoding

\* The segments before the frame.
LEMMA SegmentsKeep == HeapInv /\ (header_segment \/ padding) => HeapInv'
<1> SUFFICES ASSUME HeapInv, header_segment \/ padding PROVE HeapInv'
  BY Zenon
<1>1. lpc \in {"header", "padding"}
  BY Zenon DEF header_segment, padding
<1>2. jpeg_fail \/ (lpc' \in {"header", "padding"} /\ UNCHANGED <<heap, own>>)
  BY Zenon DEF header_segment, padding
<1> QED BY <1>1, <1>2, FailKeeps, HeaderKeeps, Zenon

\* stbi__process_frame_header allocates the planes, or gives back those it got.
LEMMA FrameKeeps == HeapInv /\ frame_header => HeapInv'
<1> SUFFICES ASSUME HeapInv, frame_header, ~ jpeg_fail PROVE HeapInv'
  BY FailKeeps, Zenon DEF frame_header
<1>1. lpc = "header" /\ own = {} /\ Holds(heap, {State})
  BY Zenon DEF frame_header, HeapInv
<1>2. PICK got : /\ \A b \in got : b[1] \in {"data", "coeff"} /\ b = <<b[1], b[2]>>
                 /\ \/ free_jpeg_components(got)
                    \/ heap' = Alloc(heap, got) /\ own' = got /\ lpc' = "image"
  <2> DEFINE p == rd.pos
             f == Frame(p)
             kinds == IF f.progressive THEN {"data", "coeff"} ELSE {"data"}
             Earlier(i, b) == (kinds \X (1..i - 1)) \cup (IF b = "coeff" THEN {<<"data", i>>} ELSE {})
  <2>1. \A i : \A b \in kinds \X (1..i) : b[1] \in {"data", "coeff"} /\ b = <<b[1], b[2]>>
    OBVIOUS
  <2>2. \A i, k : \A b \in Earlier(i, k) : b[1] \in {"data", "coeff"} /\ b = <<b[1], b[2]>>
    OBVIOUS
  <2>3. \/ \E i, k : free_jpeg_components(Earlier(i, k))
        \/ /\ heap' = Alloc(heap, kinds \X (1..f.img_n)) /\ own' = kinds \X (1..f.img_n)
           /\ lpc' = "image"
    BY Zenon DEF frame_header
  <2> HIDE DEF Earlier, kinds
  <2> QED BY <2>1, <2>2, <2>3, Zenon
<1>3. State \notin got /\ Result \notin got /\ \A n : <<"linebuf", n>> \notin got
  BY <1>2 DEF State, Result
<1>4. {State} \cap got = {}
  BY <1>3, Zenon
<1>5. Holds(Alloc(heap, got), {State} \cup got)
  BY <1>1, <1>4, HoldsMore, Zenon
<1>6. CASE free_jpeg_components(got)
  <2>1. ({State} \cup got) \ got = {State} /\ got \subseteq {State} \cup got /\ {} \cup {State} = {State}
    BY <1>4, Zenon
  <2>2. Holds(Free(Alloc(heap, got), got), {} \cup {State})
    BY <1>5, <2>1, HoldsLess
  <2> QED BY <1>6, <2>2, StopKeeps, Zenon DEF free_jpeg_components
<1>7. CASE heap' = Alloc(heap, got) /\ own' = got /\ lpc' = "image"
  <2>1. {State} \cup got = got \cup {State}
    BY Zenon
  <2> QED BY <1>3, <1>5, <1>7, <2>1, Zenon DEF HeapInv, Decoding
<1> QED BY <1>2, <1>6, <1>7, Zenon

\* The steps from the frame to the output leave the buffers alone, or fail.
LEMMA ScansKeep ==
  ASSUME HeapInv,
         \/ scan_header \/ line_count \/ image_segment \/ end_of_image
         \/ decode_block_dc \/ decode_block_ac \/ decode_block_prog_dc \/ decode_block_prog_ac
         \/ prog_ac_first \/ prog_ac_refine \/ prog_ac_advance \/ next_block \/ scan_end \/ jpeg_finish
  PROVE  HeapInv'
<1>1. \A pc \in Decoding : \A b, s, r : Goes(pc, b, s, r) => lpc' \in Decoding /\ UNCHANGED <<heap, own>>
  BY Zenon DEF Goes
<1>2. SUFFICES ASSUME lpc \in Decoding PROVE jpeg_fail \/ (lpc' \in Decoding /\ UNCHANGED <<heap, own>>)
  <2>1. lpc \in Decoding
    BY Zenon DEF scan_header, line_count, image_segment, end_of_image, decode_block_dc, decode_block_ac,
         decode_block_prog_dc, decode_block_prog_ac, prog_ac_first, prog_ac_refine, prog_ac_advance,
         next_block, scan_end, jpeg_finish, Decoding
  <2> QED BY <2>1, FailKeeps, DecodeKeeps, Zenon
<1>3. {"image", "scan", "ac", "refine", "advance", "block", "finish", "output"} \subseteq Decoding
  BY Zenon DEF Decoding
<1>4. CASE scan_header \/ line_count \/ image_segment \/ end_of_image
  <2>1. CASE scan_header
    <3>1. jpeg_fail \/ (lpc' = "scan" /\ UNCHANGED <<heap, own>>)
      BY <2>1, Zenon DEF scan_header
    <3> QED BY <1>3, <3>1, Zenon
  <2>2. CASE line_count
    BY <1>2, <1>3, <2>2, Zenon DEF line_count, lvars
  <2>3. CASE image_segment
    BY <1>2, <1>3, <2>3, Zenon DEF image_segment
  <2>4. CASE end_of_image
    BY <1>2, <1>3, <2>4, Zenon DEF end_of_image
  <2> QED BY <1>4, <2>1, <2>2, <2>3, <2>4, Zenon
<1>5. CASE next_block \/ scan_end \/ jpeg_finish
  BY <1>2, <1>3, <1>5, Zenon DEF next_block, scan_end, jpeg_finish
<1>6. CASE decode_block_dc
  BY <1>1, <1>3, <1>6, Zenon DEF decode_block_dc
<1>7. CASE decode_block_ac
  BY <1>1, <1>3, <1>7, Zenon DEF decode_block_ac, BaselineAc
<1>8. CASE decode_block_prog_dc
  BY <1>1, <1>3, <1>8, Zenon DEF decode_block_prog_dc
<1>9. CASE decode_block_prog_ac
  <2>1. \E pc \in {"block", "advance", "ac", "refine"} : \E b, s : Goes(pc, b, s, rd)
    BY <1>9, Zenon DEF decode_block_prog_ac
  <2> QED BY <1>1, <1>3, <2>1, Zenon
<1>10. CASE prog_ac_first
  BY <1>1, <1>3, <1>10, Zenon DEF prog_ac_first, ProgressiveAc
<1>11. CASE prog_ac_refine
  BY <1>1, <1>3, <1>11, Zenon DEF prog_ac_refine, RefinementAc
<1>12. CASE prog_ac_advance
  BY <1>1, <1>3, <1>12, Zenon DEF prog_ac_advance
<1> QED BY <1>4, <1>5, <1>6, <1>7, <1>8, <1>9, <1>10, <1>11, <1>12, Zenon

\* The output allocates its line buffers and the result, or frees what it got.
LEMMA OutputKeeps == HeapInv /\ (start_output \/ output_line \/ output_done) => HeapInv'
<1> SUFFICES ASSUME HeapInv, start_output \/ output_line \/ output_done PROVE HeapInv'
  BY Zenon
<1>1. CASE start_output
  <2>1. /\ lpc = "output" /\ Holds(heap, own \cup {State}) /\ State \notin own /\ Result \notin own
        /\ \A n : <<"linebuf", n>> \notin own
    BY <1>1, Zenon DEF start_output, HeapInv, Decoding
  <2>2. PICK k : LET got == {"linebuf"} \X (1..k)
                 IN \/ jpeg_stop("outofmem", Alloc(heap, got), own \cup got)
                    \/ /\ heap' = Alloc(heap, got \cup {Result}) /\ own' = own \cup got
                       /\ lpc' = "line"
    BY <1>1, Zenon DEF start_output, Result
  <2> DEFINE got == {"linebuf"} \X (1..k)
  <2>3. State \notin got /\ Result \notin got /\ State # Result /\ \A b \in got : b \notin own
    <3>1. \A b \in got : b = <<"linebuf", b[2]>>
      OBVIOUS
    <3>2. State \notin got /\ Result \notin got /\ State # Result
      BY DEF State, Result
    <3> HIDE DEF got
    <3> QED BY <2>1, <3>1, <3>2, Zenon
  <2>4. \/ jpeg_stop("outofmem", Alloc(heap, got), own \cup got)
        \/ /\ heap' = Alloc(heap, got \cup {Result}) /\ own' = own \cup got
           /\ lpc' = "line"
    BY <2>2, Zenon
  <2> HIDE DEF got
  <2>5. CASE jpeg_stop("outofmem", Alloc(heap, got), own \cup got)
    <3>1. (own \cup {State}) \cap got = {}
      BY <2>3, Zenon
    <3>2. (own \cup {State}) \cup got = (own \cup got) \cup {State}
      BY Zenon
    <3>3. Holds(Alloc(heap, got), (own \cup got) \cup {State})
      BY <2>1, <3>1, <3>2, HoldsMore
    <3> QED BY <2>5, <3>3, StopKeeps, Zenon
  <2>6. CASE heap' = Alloc(heap, got \cup {Result}) /\ own' = own \cup got /\ lpc' = "line"
    <3>1. (own \cup {State}) \cap (got \cup {Result}) = {}
      BY <2>1, <2>3, Zenon
    <3>2. (own \cup {State}) \cup (got \cup {Result}) = (own \cup got) \cup {State, Result}
      BY Zenon
    <3>3. Holds(heap', own' \cup {State, Result})
      BY <2>1, <2>6, <3>1, <3>2, HoldsMore
    <3>4. State \notin own' /\ Result \notin own'
      BY <2>1, <2>3, <2>6, Zenon
    <3> QED BY <2>6, <3>3, <3>4, Zenon DEF HeapInv, Decoding
  <2> QED BY <2>4, <2>5, <2>6, Zenon
<1>2. CASE output_line
  BY <1>2, Zenon DEF output_line, HeapInv, Decoding
<1>3. CASE output_done
  <2>1. /\ Holds(heap, own \cup {State, Result}) /\ Result \notin own
        /\ heap' = Free(heap, own \cup {State}) /\ own' = {} /\ lpc' = "ok"
    BY <1>3, Zenon DEF output_done, HeapInv, State
  <2>2. State # Result
    BY DEF State, Result
  <2>3. (own \cup {State, Result}) \ (own \cup {State}) = {Result}
        /\ own \cup {State} \subseteq own \cup {State, Result}
    BY <2>1, <2>2, Zenon
  <2>4. Holds(heap', {Result})
    BY <2>1, <2>3, HoldsLess
  <2> QED BY <2>1, <2>4, Zenon DEF HeapInv, Decoding
<1> QED BY <1>1, <1>2, <1>3, Zenon

\* facet_image_free gives the result back.
LEMMA FreeKeeps == HeapInv /\ facet_image_free => HeapInv'
<1> SUFFICES ASSUME HeapInv, facet_image_free PROVE HeapInv'
  BY Zenon
<1>1. lpc = "ok" /\ lpc' = "ok" /\ own' = own /\ own = {} /\ heap[Result] > 0 /\ heap' = Free(heap, {Result})
  BY Zenon DEF facet_image_free, HeapInv, Result
<1>2. Holds(heap, {Result})
  <2>1. ~ Holds(heap, {})
    BY <1>1 DEF Holds, Result, JBuffers
  <2> QED BY <1>1, <2>1, Zenon DEF HeapInv
<1>3. Holds(heap', {})
  <2>1. {Result} \ {Result} = {} /\ {Result} \subseteq {Result}
    BY Zenon
  <2> QED BY <1>1, <1>2, <2>1, HoldsLess
<1> QED BY <1>1, <1>3, Zenon DEF HeapInv, Decoding

\* Every step keeps HeapInv.
LEMMA HeapNext == HeapInv /\ [Next]_vars => HeapInv'
<1> SUFFICES ASSUME HeapInv, [Next]_vars PROVE HeapInv'
  BY Zenon
<1>1. CASE write_jpg_core
  BY <1>1, Zenon DEF write_jpg_core, lvars, HeapInv
<1>2. CASE load_jpeg
  BY <1>2, Zenon DEF load_jpeg, start_mem, HeapInv, Decoding
<1>3. CASE decode_jpeg
  BY <1>3, LoadKeeps, SegmentsKeep, FrameKeeps, ScansKeep, OutputKeeps, Zenon DEF decode_jpeg, jNext
<1>4. CASE facet_image_free
  BY <1>4, FreeKeeps, Zenon
<1>5. CASE done \/ UNCHANGED vars
  BY <1>5, Zenon DEF done, vars, lvars, HeapInv
<1> QED BY <1>1, <1>2, <1>3, <1>4, <1>5, Zenon DEF Next

\* Whatever the file holds, whichever allocation of the state, the frame or the
\* output fails and wherever the decoder gives up, stbi__jpeg_load frees what it
\* allocated, once, and nothing but the result is left when it returns.
THEOREM HeapAlwaysSound == Spec => []HeapSound
<1>1. Init => HeapInv
  BY Zenon DEF Init, HeapInv, Holds, Decoding
<1>2. HeapInv => HeapSound
  <2> SUFFICES ASSUME HeapInv PROVE HeapSound
    BY Zenon
  <2>1. PICK S : Holds(heap, S)
    BY Zenon DEF HeapInv
  <2>2. \A b \in JBuffers : heap[b] \in {0, 1} /\ (heap[b] > 0 => b \in S)
    BY <2>1 DEF Holds
  <2>3. Ended => Holds(heap, {}) \/ (lpc = "ok" /\ Holds(heap, {Result}))
    BY Zenon DEF HeapInv, Ended
  <2>4. Holds(heap, {}) => \A b \in JBuffers : ~ (heap[b] > 0)
    BY DEF Holds
  <2>5. Holds(heap, {Result}) => \A b \in JBuffers : heap[b] > 0 => b = Result
    BY DEF Holds
  <2> QED BY <2>2, <2>3, <2>4, <2>5, Zenon DEF HeapSound, Result
<1> QED BY <1>1, <1>2, HeapNext, PTL DEF Spec

-----------------------------------------------------------------------------
(* The planes of a frame (StbJpegFrame) and the blocks of its MCUs.          *)

\* The factors that stbi__process_frame_header lets pass.
LEMMA FactorCases ==
  \A fm \in Factors : fm \in {<<1, 1>>, <<1, 2>>, <<2, 2>>, <<1, 3>>, <<3, 3>>, <<1, 4>>, <<2, 4>>, <<4, 4>>}
  BY DEF Factors

\* A scan of one component writes blocks only inside the component's plane, as
\* an interleaved scan does by construction.
THEOREM BlocksInside ==
  ASSUME NEW x \in Nat \ {0}, NEW fm \in Factors
  PROVE  8 * scan_blocks(x, fm[1], fm[2]) <= plane_size(x, fm[1], fm[2])
  <1>1. 8 * scan_blocks(x, 1, 1) <= plane_size(x, 1, 1)
    BY DEF scan_blocks, comp_size, plane_size, img_mcu
  <1>2. 8 * scan_blocks(x, 1, 2) <= plane_size(x, 1, 2)
    BY DEF scan_blocks, comp_size, plane_size, img_mcu
  <1>3. 8 * scan_blocks(x, 2, 2) <= plane_size(x, 2, 2)
    BY DEF scan_blocks, comp_size, plane_size, img_mcu
  <1>4. 8 * scan_blocks(x, 1, 3) <= plane_size(x, 1, 3)
    BY DEF scan_blocks, comp_size, plane_size, img_mcu
  <1>5. 8 * scan_blocks(x, 3, 3) <= plane_size(x, 3, 3)
    BY DEF scan_blocks, comp_size, plane_size, img_mcu
  <1>6. 8 * scan_blocks(x, 1, 4) <= plane_size(x, 1, 4)
    BY DEF scan_blocks, comp_size, plane_size, img_mcu
  <1>7. 8 * scan_blocks(x, 2, 4) <= plane_size(x, 2, 4)
    BY DEF scan_blocks, comp_size, plane_size, img_mcu
  <1>8. 8 * scan_blocks(x, 4, 4) <= plane_size(x, 4, 4)
    BY DEF scan_blocks, comp_size, plane_size, img_mcu
  <1>9. QED BY <1>1, <1>2, <1>3, <1>4, <1>5, <1>6, <1>7, <1>8, FactorCases

\* The resampler reads exactly the samples that the component has, all of them
\* written by any complete scan, and its output fills the line of the image
\* and at most the three bytes that the line buffer has to spare.
THEOREM LinesInside ==
  ASSUME NEW x \in Nat \ {0}, NEW fm \in Factors
  PROVE  LET f == fm[1]
             max == fm[2]
         IN /\ w_lores(x, f, max) = comp_size(x, f, max)
            /\ w_lores(x, f, max) <= 8 * scan_blocks(x, f, max)
            /\ w_lores(x, f, max) * expansion(f, max) \in x..x + 3
  <1>1. CASE fm = <<1, 1>>
    BY <1>1 DEF w_lores, comp_size, scan_blocks, expansion
  <1>2. CASE fm = <<1, 2>>
    BY <1>2 DEF w_lores, comp_size, scan_blocks, expansion
  <1>3. CASE fm = <<2, 2>>
    BY <1>3 DEF w_lores, comp_size, scan_blocks, expansion
  <1>4. CASE fm = <<1, 3>>
    BY <1>4 DEF w_lores, comp_size, scan_blocks, expansion
  <1>5. CASE fm = <<3, 3>>
    BY <1>5 DEF w_lores, comp_size, scan_blocks, expansion
  <1>6. CASE fm = <<1, 4>>
    BY <1>6 DEF w_lores, comp_size, scan_blocks, expansion
  <1>7. CASE fm = <<2, 4>>
    BY <1>7 DEF w_lores, comp_size, scan_blocks, expansion
  <1>8. CASE fm = <<4, 4>>
    BY <1>8 DEF w_lores, comp_size, scan_blocks, expansion
  <1>9. QED BY <1>1, <1>2, <1>3, <1>4, <1>5, <1>6, <1>7, <1>8, FactorCases

\* Row and column of an MCU from its number.
LEMMA RowColumn ==
  ASSUME NEW across \in Nat \ {0}, NEW down \in Nat, NEW total \in Nat, total <= across * down,
         NEW at \in Nat, at < total
  PROVE  at % across \in 0..across - 1 /\ at \div across \in 0..down - 1
<1> DEFINE q == at \div across
           r == at % across
<1>1. q \in Nat /\ r \in 0..across - 1 /\ at = across * q + r
  OBVIOUS
<1> HIDE DEF q, r
<1>2. ASSUME q >= down PROVE FALSE
  <2>1. across * q = across * down + across * (q - down)
    BY <1>1
  <2>2. across * (q - down) >= 0
    BY <1>1, <1>2
  <2> DEFINE a == across * q
             b == across * down
             c == across * (q - down)
  <2>3. a \in Int /\ b \in Int /\ c \in Int /\ a = b + c /\ c >= 0 /\ at = a + r /\ total <= b
    BY <1>1, <2>1, <2>2
  <2> HIDE DEF a, b, c
  <2> QED BY <1>1, <2>3
<1> QED BY <1>1, <1>2 DEF q, r

\* A block of an MCU of h blocks in a row.
LEMMA InMcu ==
  ASSUME NEW h \in 1..4, NEW across \in Nat \ {0}, NEW i \in 0..across - 1, NEW e \in 0..3, e < h
  PROVE  i * h + e \in 0..across * h - 1
<1>1. CASE h = 1
  BY <1>1
<1>2. CASE h = 2
  BY <1>2
<1>3. CASE h = 3
  BY <1>3
<1>4. CASE h = 4
  BY <1>4
<1> QED BY <1>1, <1>2, <1>3, <1>4

\* The number of MCUs and of blocks in a row is positive, as is that of samples.
LEMMA Sizes ==
  ASSUME NEW x \in Nat \ {0}, NEW fm \in Factors
  PROVE  /\ img_mcu(x, fm[2]) \in Nat \ {0} /\ scan_blocks(x, fm[1], fm[2]) \in Nat \ {0}
         /\ comp_size(x, fm[1], fm[2]) \in Nat \ {0} /\ fm[1] \in 1..4
<1> DEFINE P(f, m) == img_mcu(x, m) \in Nat \ {0} /\ scan_blocks(x, f, m) \in Nat \ {0}
                      /\ comp_size(x, f, m) \in Nat \ {0}
<1>1. P(1, 1) /\ P(1, 2)
  BY DEF scan_blocks, comp_size, img_mcu
<1>2. P(2, 2) /\ P(1, 3)
  BY DEF scan_blocks, comp_size, img_mcu
<1>3. P(3, 3) /\ P(1, 4)
  BY DEF scan_blocks, comp_size, img_mcu
<1>4. P(2, 4) /\ P(4, 4)
  BY DEF scan_blocks, comp_size, img_mcu
<1> HIDE DEF P
<1>5. P(fm[1], fm[2])
  BY <1>1, <1>2, <1>3, <1>4, FactorCases
<1>6. fm[1] \in 1..4
  BY DEF Factors
<1> QED BY <1>5, <1>6, Zenon DEF P

\* A component of the frame, in one direction.
LEMMA PlaneRoom ==
  ASSUME NEW x \in Nat \ {0}, NEW f, NEW max, <<f, max>> \in Factors
  PROVE  /\ img_mcu(x, max) \in Nat \ {0} /\ scan_blocks(x, f, max) \in Nat \ {0}
         /\ comp_size(x, f, max) \in Nat \ {0} /\ f \in 1..4
         /\ scan_blocks(x, f, max) <= img_mcu(x, max) * f
         /\ comp_size(x, f, max) <= 8 * (img_mcu(x, max) * f)
         /\ w_lores(x, f, max) = comp_size(x, f, max)
         /\ w_lores(x, f, max) * expansion(f, max) <= x + 3
<1> DEFINE fm == <<f, max>>
           m == img_mcu(x, max)
           b == scan_blocks(x, f, max)
           c == comp_size(x, f, max)
           p == plane_size(x, f, max)
           w == w_lores(x, f, max)
           e == w * expansion(f, max)
<1>1. fm \in Factors /\ fm[1] = f /\ fm[2] = max
  OBVIOUS
<1> HIDE DEF fm
<1>2. m \in Nat \ {0} /\ b \in Nat \ {0} /\ c \in Nat \ {0} /\ f \in 1..4
  BY <1>1, Sizes
<1>3. 8 * b <= p
  BY <1>1, BlocksInside
<1>4. w = c /\ w <= 8 * b /\ e \in x..x + 3
  BY <1>1, LinesInside
<1>5. p = m * f * 8
  BY Zenon DEF plane_size
<1> HIDE DEF m, b, c, p, w, e
<1>6. m * f \in Nat /\ m * f * 8 = 8 * (m * f)
  BY <1>2
<1> DEFINE mf == m * f
<1> HIDE DEF mf
<1>7. mf \in Nat /\ p = 8 * mf
  BY <1>5, <1>6 DEF mf
<1>8. b <= mf /\ c <= 8 * mf /\ e <= x + 3
  BY <1>2, <1>3, <1>4, <1>7
<1> QED BY <1>2, <1>4, <1>8 DEF m, b, c, w, e, mf

\* The largest of some numbers up to 4.
LEMMA MaxFactor ==
  ASSUME NEW S, S \subseteq 1..4, S # {}
  PROVE  Max(S) \in S /\ \A y \in S : Max(S) >= y
<1>1. \E x \in S : \A y \in S : x >= y
  <2>1. CASE 4 \in S
    BY <2>1
  <2>2. CASE 4 \notin S /\ 3 \in S
    BY <2>2
  <2>3. CASE 4 \notin S /\ 3 \notin S /\ 2 \in S
    BY <2>3
  <2>4. CASE 4 \notin S /\ 3 \notin S /\ 2 \notin S
    <3>1. \A y \in S : y = 1
      BY <2>4
    <3>2. 1 \in S
      BY <3>1, Zenon
    <3> QED BY <3>1, <3>2
  <2> QED BY <2>1, <2>2, <2>3, <2>4, Zenon
<1> QED BY <1>1, Zenon DEF Max

\* A product of factors.
LEMMA Product ==
  ASSUME NEW h \in 1..4, NEW v \in 1..4
  PROVE  h * v \in Nat /\ h * v >= 1
<1>1. CASE h = 1
  BY <1>1
<1>2. CASE h = 2
  BY <1>2
<1>3. CASE h = 3
  BY <1>3
<1>4. CASE h = 4
  BY <1>4
<1> QED BY <1>1, <1>2, <1>3, <1>4

-----------------------------------------------------------------------------
(* Where every access stays inside its buffer.                               *)

Octet == 0..255
ZeroOne == 0..1
Bytes == file \in Seq(Octet)
Reader == [pos : Nat, bits : Seq(ZeroOne), marker : Octet, nomore : BOOLEAN]

IsTable(h) == h.ok \in BOOLEAN /\ h.values \in [1..256 -> Octet] /\ (h.ok => h.delta \in [1..16 -> Int])

JpgFields == {"img_n", "x", "y", "progressive", "comp", "hmax", "vmax", "jfif", "app14", "restart_interval",
              "dequant", "huff_dc", "huff_ac"}
TablesOk(j) == /\ DOMAIN j.huff_dc = 0..3 /\ DOMAIN j.huff_ac = 0..3
               /\ \A t \in 0..3 : IsTable(j.huff_dc[t]) /\ IsTable(j.huff_ac[t])
IsJpg(j) == DOMAIN j = JpgFields /\ DOMAIN j.dequant = 0..3 /\ TablesOk(j)
\* j and the image's jpg agree on the frame.
SameFrame(j) == /\ j.img_n = jpg.img_n /\ j.x = jpg.x /\ j.y = jpg.y /\ j.progressive = jpg.progressive
                /\ j.comp = jpg.comp /\ j.hmax = jpg.hmax /\ j.vmax = jpg.vmax
\* A segment on the way, and what is read of it.
Reading(s) == /\ DOMAIN s = {"ok", "jpg", "pos", "left"} /\ s.ok \in BOOLEAN /\ s.pos \in Nat /\ s.left \in Int
              /\ IsJpg(s.jpg) /\ SameFrame(s.jpg)

CompFields == {"id", "h", "v", "tq", "hd", "ha"}
\* A frame as stbi__process_frame_header accepts it.
Sized(j) ==
  /\ j.x \in Nat \ {0} /\ j.y \in Nat \ {0} /\ j.img_n \in {1, 3, 4} /\ DOMAIN j.comp = 1..j.img_n
  /\ \A n \in 1..j.img_n : /\ DOMAIN j.comp[n] = CompFields /\ j.comp[n].hd \in 0..3 /\ j.comp[n].ha \in 0..3
                           /\ <<j.comp[n].h, j.hmax>> \in Factors /\ <<j.comp[n].v, j.vmax>> \in Factors
Blank(j, n) == (0..PlaneW(j, n) - 1) \X (0..PlaneH(j, n) - 1)
Framed == Sized(jpg) /\ DOMAIN planes = 1..jpg.img_n /\ \A n \in 1..jpg.img_n : DOMAIN planes[n] = Blank(jpg, n)

ScanFields == {"mcu", "interleaved", "across", "total", "at", "b", "ss", "se", "ah", "al", "dc_pred", "todo", "eob_run"}
\* The MCUs of a scan: across of them in a row, and no more rows than down.
Rows(s, down) == s.at \in 0..s.total /\ s.across \in Nat \ {0} /\ s.total \in Nat /\ s.total <= s.across * down
Scans(j, s) ==
  /\ DOMAIN s = ScanFields /\ s.interleaved \in BOOLEAN
  /\ s.mcu \in Seq((1..j.img_n) \X (0..3) \X (0..3)) /\ s.b \in 1..Len(s.mcu)
  /\ s.ss \in Nat /\ s.se \in 0..63 /\ (j.progressive => s.ss <= s.se)
  /\ s.interleaved => /\ s.across = img_mcu(j.x, j.hmax) /\ Rows(s, img_mcu(j.y, j.vmax))
                      /\ \A e \in 1..Len(s.mcu) : /\ s.mcu[e][2] < j.comp[s.mcu[e][1]].h
                                                  /\ s.mcu[e][3] < j.comp[s.mcu[e][1]].v
  /\ ~ s.interleaved => LET c == j.comp[s.mcu[1][1]]
                        IN /\ Len(s.mcu) = 1 /\ s.across = scan_blocks(j.x, c.h, j.hmax)
                           /\ Rows(s, scan_blocks(j.y, c.v, j.vmax))
InScan(j, s, b) == DOMAIN b = {"k", "run", "s", "data"} /\ b.k \in Nat /\ s.at < s.total
InBlock == {"ac", "refine", "advance", "block"}

\* A component's rows: line0 and line1 are among its samples, and line1 is not
\* ahead of ypos.
Resampling(j, l, n) ==
  LET rows == comp_size(j.y, j.comp[n].v, j.vmax)
  IN /\ DOMAIN l = {"ystep", "ypos", "line0", "line1"} /\ l.ystep \in Int /\ l.ypos \in Nat
     /\ l.line0 \in 0..rows - 1 /\ l.line1 \in 0..rows - 1 /\ l.line1 <= l.ypos

Sound ==
  /\ rd \in Reader /\ IsJpg(jpg)
  /\ lpc \in {"image", "scan", "finish", "output", "line"} \cup InBlock => Framed
  /\ lpc \in {"scan"} \cup InBlock => Scans(jpg, scan)
  /\ lpc \in InBlock => InScan(jpg, scan, blk)
  /\ lpc \in {"refine", "advance"} \/ (lpc = "ac" /\ jpg.progressive) => blk.k <= scan.se
  /\ lpc = "ac" => blk.k <= 63
  /\ lpc = "block" => blk.k <= 79
  /\ lpc = "line" => \A n \in 1..DecodeN : Resampling(jpg, lines[n], n)

\* The invariant: on every file of bytes, whatever they are.
InsideInv == Bytes \/ lpc = "idle" => Sound

\* The elements of a sequence are those of its set.
LEMMA ElementOf ==
  ASSUME NEW S, NEW s \in Seq(S), NEW i \in 1..Len(s)
  PROVE  s[i] \in S
OBVIOUS

\* The component of the block at hand, its place in the MCU and its tables.
LEMMA CompTyped ==
  ASSUME IsJpg(jpg), Framed, Scans(jpg, scan)
  PROVE  /\ Comp \in 1..jpg.img_n /\ scan.mcu[scan.b][2] \in 0..3 /\ scan.mcu[scan.b][3] \in 0..3
         /\ IsTable(jpg.huff_dc[jpg.comp[Comp].hd]) /\ IsTable(jpg.huff_ac[jpg.comp[Comp].ha])
<1> DEFINE S == (1..jpg.img_n) \X (0..3) \X (0..3)
           e == scan.mcu[scan.b]
<1>1. e \in S
  <2> HIDE DEF S
  <2>1. scan.mcu \in Seq(S) /\ scan.b \in 1..Len(scan.mcu)
    BY Zenon DEF Scans, S
  <2> QED BY <2>1, ElementOf, Zenon
<1>2. e[1] \in 1..jpg.img_n /\ e[2] \in 0..3 /\ e[3] \in 0..3
  <2> HIDE DEF e
  <2> QED BY <1>1
<1>3. Comp \in 1..jpg.img_n
  BY <1>2, Zenon DEF Comp
<1>4. jpg.comp[Comp].hd \in 0..3 /\ jpg.comp[Comp].ha \in 0..3
  BY <1>3, Zenon DEF Framed, Sized
<1>5. IsTable(jpg.huff_dc[jpg.comp[Comp].hd]) /\ IsTable(jpg.huff_ac[jpg.comp[Comp].ha])
  BY <1>4, Zenon DEF IsJpg, TablesOk
<1> QED BY <1>2, <1>3, <1>5, Zenon

\* The block at hand is inside its component's plane.
LEMMA PlaceInside ==
  ASSUME IsJpg(jpg), Framed, Scans(jpg, scan), scan.at < scan.total
  PROVE  Place \in DOMAIN planes[Comp]
<1> DEFINE n == Comp
           c == jpg.comp[n]
           e == scan.mcu[scan.b]
           i == scan.at % scan.across
           j == scan.at \div scan.across
           w == img_mcu(jpg.x, jpg.hmax)
           h == img_mcu(jpg.y, jpg.vmax)
<1>1. n \in 1..jpg.img_n /\ e[2] \in 0..3 /\ e[3] \in 0..3 /\ e[1] = n
  BY CompTyped, Zenon DEF Comp
<1> HIDE DEF n
<1>2. /\ jpg.x \in Nat \ {0} /\ jpg.y \in Nat \ {0}
      /\ <<c.h, jpg.hmax>> \in Factors /\ <<c.v, jpg.vmax>> \in Factors
  BY <1>1, Zenon DEF Framed, Sized
<1>3. w \in Nat \ {0} /\ h \in Nat \ {0} /\ c.h \in 1..4 /\ c.v \in 1..4
  <2> HIDE DEF c
  <2> QED BY <1>2, PlaneRoom, Zenon
<1>4. DOMAIN planes[n] = (0..w * c.h - 1) \X (0..h * c.v - 1)
  BY <1>1, Zenon DEF Framed, Blank, PlaneW, PlaneH
<1>5. CASE scan.interleaved
  <2>1. /\ scan.across = w /\ scan.total \in Nat /\ scan.at \in 0..scan.total /\ scan.total <= scan.across * h
        /\ scan.b \in 1..Len(scan.mcu)
        /\ \A b \in 1..Len(scan.mcu) : /\ scan.mcu[b][2] < jpg.comp[scan.mcu[b][1]].h
                                       /\ scan.mcu[b][3] < jpg.comp[scan.mcu[b][1]].v
    BY <1>5, Zenon DEF Scans, Rows
  <2>2. e[2] < c.h /\ e[3] < c.v
    BY <1>1, <2>1, Zenon
  <2>3. i \in 0..w - 1 /\ j \in 0..h - 1
    <3> DEFINE a == scan.across
               t == scan.total
               k == scan.at
    <3>1. a \in Nat \ {0} /\ t \in Nat /\ k \in Nat /\ k < t /\ h \in Nat /\ t <= a * h
      BY <1>3, <2>1
    <3> HIDE DEF a, t, k, h
    <3>2. k % a \in 0..a - 1 /\ k \div a \in 0..h - 1
      BY <3>1, RowColumn, Zenon
    <3> QED BY <2>1, <3>2, Zenon DEF a, t, k, h
  <2> HIDE DEF i, j, w, h, c, e
  <2>4. i * c.h + e[2] \in 0..w * c.h - 1 /\ j * c.v + e[3] \in 0..h * c.v - 1
    BY <1>1, <1>3, <2>2, <2>3, InMcu, Zenon
  <2>5. Place = <<i * c.h + e[2], j * c.v + e[3]>>
    BY <1>5, Zenon DEF Place, i, j, c, e, n
  <2> QED BY <1>4, <2>4, <2>5, Zenon DEF n
<1>6. CASE ~ scan.interleaved
  <2> DEFINE bw == scan_blocks(jpg.x, c.h, jpg.hmax)
             bh == scan_blocks(jpg.y, c.v, jpg.vmax)
  <2>1. scan.b = 1
    <3>1. Len(scan.mcu) = 1 /\ scan.b \in 1..Len(scan.mcu)
      BY <1>6, Zenon DEF Scans
    <3> QED BY <3>1
  <2>2. c = jpg.comp[scan.mcu[1][1]]
    BY <1>1, <2>1, Zenon
  <2> HIDE DEF c
  <2>3. scan.across = bw /\ scan.total \in Nat /\ scan.at \in 0..scan.total /\ scan.total <= scan.across * bh
    BY <1>6, <2>2, Zenon DEF Scans, Rows
  <2>4. bw \in Nat \ {0} /\ bh \in Nat \ {0} /\ bw <= w * c.h /\ bh <= h * c.v
    BY <1>2, PlaneRoom, Zenon
  <2> HIDE DEF bw, bh
  <2>5. i \in 0..bw - 1 /\ j \in 0..bh - 1
    <3> DEFINE a == scan.across
               t == scan.total
               k == scan.at
    <3>1. a \in Nat \ {0} /\ t \in Nat /\ k \in Nat /\ k < t /\ bh \in Nat /\ t <= a * bh
      BY <2>3, <2>4
    <3> HIDE DEF a, t, k
    <3>2. k % a \in 0..a - 1 /\ k \div a \in 0..bh - 1
      BY <3>1, RowColumn, Zenon
    <3> QED BY <2>3, <3>2, Zenon DEF a, t, k
  <2> DEFINE W == w * c.h
             H == h * c.v
  <2>6. W \in Nat /\ H \in Nat /\ bw <= W /\ bh <= H
    BY <1>3, <2>4
  <2>7. Place = <<i, j>>
    BY <1>6, Zenon DEF Place
  <2> HIDE DEF i, j, W, H
  <2>8. i \in 0..W - 1 /\ j \in 0..H - 1
    BY <2>4, <2>5, <2>6
  <2> QED BY <1>4, <2>7, <2>8, Zenon DEF n, W, H
<1> QED BY <1>5, <1>6, Zenon DEF Scans

\* The invariant implies the property.
LEMMA SoundInside ==
  ASSUME Sound
  PROVE  Inside
<1>1. ASSUME lpc \in InBlock PROVE Place \in DOMAIN planes[Comp] /\ blk.k <= 64 + 15
  <2>1. IsJpg(jpg) /\ Framed /\ Scans(jpg, scan) /\ scan.at < scan.total /\ blk.k \in Nat /\ scan.se \in 0..63
    BY <1>1, Zenon DEF Sound, InScan, Scans
  <2>2. blk.k <= 63 \/ blk.k <= scan.se \/ blk.k <= 79
    BY <1>1, Zenon DEF Sound, InBlock
  <2>3. blk.k <= 64 + 15
    BY <2>1, <2>2
  <2> QED BY <2>1, <2>3, PlaceInside, Zenon
<1>2. ASSUME lpc = "line", NEW n \in 1..DecodeN
      PROVE  /\ lines[n].line0 < 8 * PlaneH(jpg, n) /\ lines[n].line1 < 8 * PlaneH(jpg, n)
             /\ WLores(n) <= 8 * PlaneW(jpg, n) /\ WLores(n) * Hs(n) <= jpg.x + 3
  <2>1. Framed /\ Resampling(jpg, lines[n], n)
    BY <1>2, Zenon DEF Sound
  <2>2. n \in 1..jpg.img_n
    BY <2>1 DEF Framed, Sized, DecodeN
  <2> DEFINE c == jpg.comp[n]
             rows == comp_size(jpg.y, c.v, jpg.vmax)
  <2>3. /\ jpg.x \in Nat \ {0} /\ jpg.y \in Nat \ {0}
        /\ <<c.h, jpg.hmax>> \in Factors /\ <<c.v, jpg.vmax>> \in Factors
    BY <2>1, <2>2, Zenon DEF Framed, Sized
  <2>4. lines[n].line0 \in 0..rows - 1 /\ lines[n].line1 \in 0..rows - 1
    BY <2>1, Zenon DEF Resampling
  <2> HIDE DEF c
  <2> DEFINE w == img_mcu(jpg.x, jpg.hmax) * c.h
             h == img_mcu(jpg.y, jpg.vmax) * c.v
             cols == comp_size(jpg.x, c.h, jpg.hmax)
  <2>5. /\ rows \in Nat \ {0} /\ cols \in Nat \ {0} /\ rows <= 8 * h /\ cols <= 8 * w
        /\ w_lores(jpg.x, c.h, jpg.hmax) = cols
        /\ w_lores(jpg.x, c.h, jpg.hmax) * expansion(c.h, jpg.hmax) <= jpg.x + 3
    BY <2>3, PlaneRoom, Zenon
  <2>6. /\ img_mcu(jpg.x, jpg.hmax) \in Nat /\ img_mcu(jpg.y, jpg.vmax) \in Nat /\ c.h \in Nat /\ c.v \in Nat
    <3>1. \A k : (k \in Nat \ {0} => k \in Nat) /\ (k \in 1..4 => k \in Nat)
      OBVIOUS
    <3> QED BY <2>3, <3>1, PlaneRoom, Zenon
  <2>7. h \in Nat /\ w \in Nat
    BY <2>6
  <2>8. PlaneH(jpg, n) = h /\ PlaneW(jpg, n) = w
    BY Zenon DEF PlaneH, PlaneW, c
  <2>9. WLores(n) = w_lores(jpg.x, c.h, jpg.hmax) /\ Hs(n) = expansion(c.h, jpg.hmax)
    BY Zenon DEF WLores, Hs, c
  <2> HIDE DEF h, w, rows, cols
  <2>10. lines[n].line0 < 8 * h /\ lines[n].line1 < 8 * h
    BY <2>4, <2>5, <2>7
  <2> QED BY <2>5, <2>8, <2>9, <2>10, Zenon
<1> QED BY <1>1, <1>2, Zenon DEF Inside, InBlock

-----------------------------------------------------------------------------
(* Steps that read nothing of the file.                                      *)

\* Scans says nothing of the predictions, the countdown or eob_run.
LEMMA ScanKeeps ==
  ASSUME NEW j, NEW s, Scans(j, s), NEW t, DOMAIN t = ScanFields, t.mcu = s.mcu, t.interleaved = s.interleaved,
         t.across = s.across, t.total = s.total, t.at = s.at, t.b = s.b, t.ss = s.ss, t.se = s.se
  PROVE  Scans(j, t)
BY Zenon DEF Scans, Rows

\* A failure leaves everything but the heap.
LEMMA StopSound ==
  ASSUME Sound, NEW reason \in {"fail", "outofmem"}, NEW h, NEW o, jpeg_stop(reason, h, o)
  PROVE  Sound' /\ file' = file /\ lpc' # "idle"
<1>1. lpc' \in {"fail", "outofmem"} /\ rd' = rd /\ jpg' = jpg /\ file' = file
  BY Zenon DEF jpeg_stop, jvars
<1>2. lpc' \notin {"idle", "image", "scan", "finish", "output", "line", "ac", "refine", "advance", "block"}
  BY <1>1
<1>3. IsJpg(jpg') /\ rd' \in Reader
  BY <1>1, Zenon DEF Sound
<1> QED BY <1>1, <1>2, <1>3, Zenon DEF Sound, InBlock

\* jpeg_fail is such a failure.
LEMMA FailSound ==
  ASSUME Sound, jpeg_fail
  PROVE  Sound' /\ file' = file /\ lpc' # "idle"
BY StopSound, Zenon DEF jpeg_fail

\* A step inside a scan.
LEMMA GoesSound ==
  ASSUME Sound, lpc \in {"scan"} \cup InBlock, NEW pc \in InBlock, NEW b, NEW s, NEW r \in Reader, Goes(pc, b, s, r),
         Scans(jpg, s), InScan(jpg, s, b),
         pc \in {"refine", "advance"} \/ (pc = "ac" /\ jpg.progressive) => b.k <= s.se,
         pc = "ac" => b.k <= 63, pc = "block" => b.k <= 79
  PROVE  Sound' /\ file' = file /\ lpc' # "idle"
<1>1. /\ lpc' = pc /\ blk' = b /\ scan' = s /\ rd' = r /\ jpg' = jpg /\ planes' = planes /\ file' = file
  BY Zenon DEF Goes
<1>2. pc # "idle" /\ pc # "line"
  BY DEF InBlock
<1>3. Framed'
  <2>1. Framed
    BY Zenon DEF Sound
  <2> QED BY <1>1, <2>1, Zenon DEF Framed
<1>4. IsJpg(jpg') /\ Scans(jpg', scan') /\ InScan(jpg', scan', blk')
  BY <1>1, Zenon DEF Sound
<1> QED BY <1>1, <1>2, <1>3, <1>4, Zenon DEF Sound

\* A step between the scans.
LEMMA ImageSound ==
  ASSUME Framed, rd' \in Reader, IsJpg(jpg'), SameFrame(jpg'), lpc' \in {"image", "finish", "output"},
         DOMAIN planes' = DOMAIN planes, \A n \in DOMAIN planes : DOMAIN (planes'[n]) = DOMAIN planes[n]
  PROVE  Sound' /\ lpc' # "idle"
<1>1. lpc' \notin {"scan", "line", "ac", "refine", "advance", "block", "idle"}
  OBVIOUS
<1>2. Framed'
  <2>1. DOMAIN planes = 1..jpg.img_n /\ Sized(jpg) /\ \A n \in 1..jpg.img_n : DOMAIN planes[n] = Blank(jpg, n)
    BY Zenon DEF Framed
  <2>2. Sized(jpg')
    BY <2>1, Zenon DEF Sized, SameFrame
  <2>3. \A n : Blank(jpg', n) = Blank(jpg, n)
    BY Zenon DEF Blank, PlaneW, PlaneH, SameFrame
  <2>4. jpg'.img_n = jpg.img_n
    BY Zenon DEF SameFrame
  <2>5. \A n \in 1..jpg'.img_n : DOMAIN (planes'[n]) = Blank(jpg', n)
    BY <2>1, <2>3, <2>4, Zenon
  <2> QED BY <2>1, <2>2, <2>4, <2>5, Zenon DEF Framed
<1> QED BY <1>1, <1>2, Zenon DEF Sound, InBlock

\* Before the frame the reader and the tables are all there is.
LEMMA HeaderSound ==
  ASSUME rd' \in Reader, IsJpg(jpg'), lpc' \in {"test", "header", "padding", "ok", "fail", "outofmem"}
  PROVE  Sound' /\ lpc' # "idle"
<1>1. lpc' \notin {"image", "scan", "finish", "output", "line", "ac", "refine", "advance", "block", "idle"}
  OBVIOUS
<1> QED BY <1>1, Zenon DEF Sound, InBlock

\* The transform of the coefficients fills planes, each in its place.
LEMMA FinishSound ==
  ASSUME Bytes, Sound, jpeg_finish
  PROVE  Sound' /\ file' = file /\ lpc' # "idle"
<1>1. lpc = "finish" /\ lpc' \in {"image", "finish", "output"} /\ file' = file /\ jpg' = jpg /\ rd' = rd
  BY Zenon DEF jpeg_finish
<1>2. rd \in Reader /\ IsJpg(jpg) /\ Framed
  BY <1>1, Zenon DEF Sound
<1>3. SameFrame(jpg)
  BY Zenon DEF SameFrame
<1>4. DOMAIN planes' = DOMAIN planes /\ \A n \in DOMAIN planes : DOMAIN (planes'[n]) = DOMAIN planes[n]
  <2> DEFINE n == Len(lines) + 1
             c == jpg.comp[n]
             Seen(at) == /\ at[1] < scan_blocks(jpg.x, c.h, jpg.hmax)
                         /\ at[2] < scan_blocks(jpg.y, c.v, jpg.vmax)
             Samples1(at, junk) ==
               LET d == IF coeffs[n][at] = <<>> THEN [i \in 0..63 |-> junk] ELSE coeffs[n][at]
               IN IF Seen(at) THEN idct_block([i \in 0..63 |-> Short(d[i] * jpg.dequant[c.tq][i])])
                  ELSE planes[n][at]
             plane(junk) == [at \in DOMAIN planes[n] |-> Samples1(at, junk)]
  <2>1. planes' = planes \/ \E junk \in Junk : planes' = [planes EXCEPT ![n] = plane(junk)]
    BY Zenon DEF jpeg_finish
  <2> HIDE DEF Samples1
  <2>2. \A junk : DOMAIN plane(junk) = DOMAIN planes[n]
    BY Zenon
  <2> HIDE DEF plane, n
  <2>3. CASE planes' = planes
    BY <2>3, Zenon
  <2>4. CASE \E junk \in Junk : planes' = [planes EXCEPT ![n] = plane(junk)]
    <3>1. PICK junk \in Junk : planes' = [planes EXCEPT ![n] = plane(junk)]
      BY <2>4, Zenon
    <3> DEFINE p == plane(junk)
    <3>2. DOMAIN p = DOMAIN planes[n] /\ planes' = [planes EXCEPT ![n] = p]
      BY <2>2, <3>1, Zenon
    <3> HIDE DEF p
    <3> QED BY <3>2
  <2> QED BY <2>1, <2>3, <2>4, Zenon
<1> QED BY <1>1, <1>2, <1>3, <1>4, ImageSound, Zenon

\* The lines are those of components of the frame.
LEMMA DecodeInside ==
  ASSUME Sized(jpg)
  PROVE  1..DecodeN \subseteq 1..jpg.img_n
<1>1. DecodeN = 1 \/ DecodeN = jpg.img_n
  BY Zenon DEF DecodeN
<1>2. jpg.img_n \in {1, 3, 4}
  BY Zenon DEF Sized
<1> HIDE DEF DecodeN
<1> QED BY <1>1, <1>2

\* What a component's rows are counted by.
LEMMA RowsTyped ==
  ASSUME Sized(jpg), NEW n \in 1..jpg.img_n
  PROVE  comp_size(jpg.y, jpg.comp[n].v, jpg.vmax) \in Nat \ {0} /\ Vs(n) \in Int
<1>1. jpg.y \in Nat \ {0} /\ <<jpg.comp[n].v, jpg.vmax>> \in Factors
  BY Zenon DEF Sized
<1>2. comp_size(jpg.y, jpg.comp[n].v, jpg.vmax) \in Nat \ {0}
  BY <1>1, PlaneRoom, Zenon
<1>3. \A f, m : <<f, m>> \in Factors => m \div f \in Int
  BY DEF Factors
<1>4. Vs(n) \in Int
  BY <1>1, <1>3, Zenon DEF Vs, expansion
<1> QED BY <1>2, <1>4, Zenon

\* A step of the output that keeps the frame.
LEMMA LineSound ==
  ASSUME Framed, IsJpg(jpg), rd \in Reader, rd' = rd, jpg' = jpg, planes' = planes, req_comp' = req_comp, lpc' = "line",
         \A n \in 1..DecodeN : Resampling(jpg, lines'[n], n)
  PROVE  Sound' /\ lpc' # "idle"
<1>1. lpc' \notin {"scan", "ac", "refine", "advance", "block", "idle"}
  OBVIOUS
<1>2. Framed' /\ IsJpg(jpg') /\ rd' \in Reader
  BY Zenon DEF Framed
<1>3. DecodeN' = DecodeN
  BY Zenon DEF DecodeN, OutN, IsRgb
<1>4. \A n \in 1..DecodeN' : Resampling(jpg', lines'[n], n)
  BY <1>3, Zenon
<1> QED BY <1>1, <1>2, <1>4, Zenon DEF Sound, InBlock

\* The output begins: every component at its first row.
LEMMA OutputSound ==
  ASSUME Bytes, Sound, start_output
  PROVE  Sound' /\ file' = file /\ lpc' # "idle"
<1> DEFINE L(n) == [ystep |-> Vs(n) \div 2, ypos |-> 0, line0 |-> 0, line1 |-> 0]
<1>1. /\ lpc = "output"
      /\ \/ \E h, o : jpeg_stop("outofmem", h, o)
         \/ /\ lpc' = "line" /\ lines' = [n \in 1..DecodeN |-> L(n)]
            /\ rd' = rd /\ jpg' = jpg /\ planes' = planes /\ req_comp' = req_comp /\ file' = file
  BY Zenon DEF start_output
<1>2. Framed /\ Sized(jpg) /\ IsJpg(jpg) /\ rd \in Reader
  BY <1>1, Zenon DEF Sound, Framed
<1>3. CASE \E h, o : jpeg_stop("outofmem", h, o)
  <2>1. "outofmem" \in {"fail", "outofmem"}
    OBVIOUS
  <2> QED BY <1>3, <2>1, StopSound, Zenon
<1>4. CASE /\ lpc' = "line" /\ lines' = [n \in 1..DecodeN |-> L(n)]
           /\ rd' = rd /\ jpg' = jpg /\ planes' = planes /\ req_comp' = req_comp /\ file' = file
  <2>1. ASSUME NEW n \in 1..DecodeN PROVE Resampling(jpg, L(n), n)
    <3>1. n \in 1..jpg.img_n
      BY <1>2, DecodeInside, Zenon
    <3> DEFINE rows == comp_size(jpg.y, jpg.comp[n].v, jpg.vmax)
               half == Vs(n) \div 2
    <3>2. rows \in Nat \ {0} /\ Vs(n) \in Int
      BY <1>2, <3>1, RowsTyped, Zenon
    <3>3. half \in Int
      BY <3>2
    <3> HIDE DEF rows, half
    <3>4. 0 \in 0..rows - 1 /\ 0 <= 0
      BY <3>2
    <3> DEFINE l == L(n)
    <3>5. l = [ystep |-> half, ypos |-> 0, line0 |-> 0, line1 |-> 0]
      BY Zenon DEF half
    <3> HIDE DEF l
    <3>6. DOMAIN l = {"ystep", "ypos", "line0", "line1"} /\ l.ystep = half /\ l.ypos = 0 /\ l.line0 = 0 /\ l.line1 = 0
      BY <3>5
    <3>7. 0 \in Nat
      OBVIOUS
    <3>8. Resampling(jpg, l, n)
      BY <3>3, <3>4, <3>6, <3>7, Zenon DEF Resampling, rows
    <3> QED BY <3>8, Zenon DEF l
  <2> HIDE DEF L
  <2>2. \A n \in 1..DecodeN : Resampling(jpg, lines'[n], n)
    BY <1>4, <2>1, Zenon
  <2> QED BY <1>2, <1>4, <2>2, LineSound, Zenon
<1> QED BY <1>1, <1>3, <1>4, Zenon

\* A line of the image: no component goes past its last row.
LEMMA NextLineSound ==
  ASSUME Bytes, Sound, output_line
  PROVE  Sound' /\ file' = file /\ lpc' # "idle"
<1>1. /\ lpc = "line" /\ lpc' = "line" /\ lines' = [n \in 1..DecodeN |-> NextRow(n)]
      /\ rd' = rd /\ jpg' = jpg /\ planes' = planes /\ req_comp' = req_comp /\ file' = file
  BY Zenon DEF output_line
<1>2. Framed /\ Sized(jpg) /\ IsJpg(jpg) /\ rd \in Reader /\ \A n \in 1..DecodeN : Resampling(jpg, lines[n], n)
  BY <1>1, Zenon DEF Sound, Framed
<1>3. ASSUME NEW n \in 1..DecodeN PROVE Resampling(jpg, NextRow(n), n)
  <2>1. n \in 1..jpg.img_n
    BY <1>2, DecodeInside, Zenon
  <2> DEFINE rows == comp_size(jpg.y, jpg.comp[n].v, jpg.vmax)
             l == lines[n]
             t == NextRow(n)
  <2>2. rows \in Nat \ {0}
    BY <1>2, <2>1, RowsTyped, Zenon
  <2>3. t = IF l.ystep + 1 < Vs(n) THEN [l EXCEPT !.ystep = @ + 1]
            ELSE [ystep |-> 0, ypos |-> l.ypos + 1, line0 |-> l.line1,
                  line1 |-> IF l.ypos + 1 < rows THEN l.line1 + 1 ELSE l.line1]
    BY Zenon DEF NextRow
  <2> HIDE DEF rows
  <2>4. /\ DOMAIN l = {"ystep", "ypos", "line0", "line1"} /\ l.ystep \in Int /\ l.ypos \in Nat
        /\ l.line0 \in 0..rows - 1 /\ l.line1 \in 0..rows - 1 /\ l.line1 <= l.ypos
    BY <1>2, Zenon DEF Resampling, rows
  <2> HIDE DEF l, t
  <2>5. /\ DOMAIN t = {"ystep", "ypos", "line0", "line1"} /\ t.ystep \in Int /\ t.ypos \in Nat
        /\ t.line0 \in 0..rows - 1 /\ t.line1 \in 0..rows - 1 /\ t.line1 <= t.ypos
    <3>1. CASE l.ystep + 1 < Vs(n)
      <4>1. t = [l EXCEPT !.ystep = l.ystep + 1]
        BY <2>3, <3>1
      <4>2. DOMAIN t = DOMAIN l /\ t.ystep = l.ystep + 1 /\ t.ypos = l.ypos /\ t.line0 = l.line0 /\ t.line1 = l.line1
        BY <2>4, <4>1
      <4> QED BY <2>4, <4>2
    <3>2. CASE ~ (l.ystep + 1 < Vs(n))
      <4> DEFINE one == IF l.ypos + 1 < rows THEN l.line1 + 1 ELSE l.line1
                 y == l.ypos + 1
      <4>1. t = [ystep |-> 0, ypos |-> y, line0 |-> l.line1, line1 |-> one]
        BY <2>3, <3>2, Zenon
      <4>2. one \in 0..rows - 1 /\ one <= y /\ y \in Nat
        BY <2>2, <2>4
      <4> HIDE DEF one, y
      <4>3. DOMAIN t = {"ystep", "ypos", "line0", "line1"} /\ t.ystep = 0 /\ t.ypos = y /\ t.line0 = l.line1 /\ t.line1 = one
        BY <4>1
      <4> QED BY <2>4, <4>2, <4>3
    <3> QED BY <3>1, <3>2, Zenon
  <2>6. Resampling(jpg, t, n)
    BY <2>5, Zenon DEF Resampling, rows
  <2> QED BY <2>6, Zenon DEF t
<1>4. \A n \in 1..DecodeN : Resampling(jpg, lines'[n], n)
  <2> HIDE DEF NextRow
  <2> QED BY <1>1, <1>3, Zenon
<1> QED BY <1>1, <1>2, <1>4, LineSound, Zenon

\* The decoder returns the image.
LEMMA DoneSound ==
  ASSUME Sound, output_done
  PROVE  Sound' /\ file' = file /\ lpc' # "idle"
<1>1. lpc' = "ok" /\ rd' = rd /\ jpg' = jpg /\ file' = file
  BY Zenon DEF output_done, jvars
<1>2. lpc' \in {"test", "header", "padding", "ok", "fail", "outofmem"}
  BY <1>1
<1>3. rd' \in Reader /\ IsJpg(jpg')
  BY <1>1, Zenon DEF Sound
<1> QED BY <1>1, <1>2, <1>3, HeaderSound, Zenon

\* The initial state: nothing is read.
LEMMA InsideInit ==
  ASSUME Init
  PROVE  Sound
<1>1. lpc = "idle" /\ rd = [pos |-> 0, bits |-> <<>>, marker |-> MARKER_none, nomore |-> FALSE] /\ jpg = NoJpg
  BY Zenon DEF Init, jIdle
<1>2. lpc \notin {"image", "scan", "finish", "output", "line", "ac", "refine", "advance", "block"}
  BY <1>1
<1>3. rd \in Reader
  BY <1>1 DEF Reader, MARKER_none, Octet
<1>4. IsTable(NoTable)
  <2> DEFINE none == [i \in 1..256 |-> 0]
             no == FALSE
  <2>1. none \in [1..256 -> Octet] /\ ~ no /\ no \in BOOLEAN
    BY DEF Octet
  <2>2. NoTable = [ok |-> no, values |-> none]
    BY Zenon DEF NoTable
  <2> HIDE DEF none, no
  <2>3. NoTable.ok = no /\ NoTable.values = none
    BY <2>2
  <2> QED BY <2>1, <2>3, Zenon DEF IsTable
<1>5. IsJpg(jpg)
  <2>1. /\ DOMAIN jpg = JpgFields /\ jpg.dequant = [t \in 0..3 |-> Zero]
        /\ jpg.huff_dc = [t \in 0..3 |-> NoTable] /\ jpg.huff_ac = [t \in 0..3 |-> NoTable]
    BY <1>1 DEF NoJpg, JpgFields
  <2> QED BY <1>4, <2>1, Zenon DEF IsJpg, TablesOk
<1> QED BY <1>2, <1>3, <1>5, Zenon DEF Sound, InBlock

-----------------------------------------------------------------------------
(* The headers of the frame and of a scan.                                   *)

\* stbi__get8 returns a byte at every place, zero past the end.
LEMMA ByteRange ==
  ASSUME Bytes, NEW p \in Nat
  PROVE  Byte(p) \in Octet
<1>1. CASE p < Len(file)
  <2>1. p + 1 \in 1..Len(file)
    BY <1>1 DEF Bytes
  <2>2. file[p + 1] \in Octet
    BY <2>1, ElementOf, Zenon DEF Bytes
  <2> QED BY <1>1, <2>2, Zenon DEF Byte
<1>2. CASE ~ (p < Len(file))
  BY <1>2 DEF Byte, Octet
<1> QED BY <1>1, <1>2, Zenon

\* The component that a scan header names is one of the frame's.
LEMMA ChosenTyped ==
  ASSUME Sized(jpg), NEW p, NEW i, \E c \in 1..jpg.img_n : jpg.comp[c].id = Byte(p + 1 + 2 * i)
  PROVE  Chosen(p, i) \in 1..jpg.img_n
<1> DEFINE id == Byte(p + 1 + 2 * i)
           T == {c \in 1..jpg.img_n : jpg.comp[c].id = id}
           OK(n) == jpg.comp[n].id = id /\ \A l \in 1..n - 1 : jpg.comp[l].id # jpg.comp[n].id
<1> HIDE DEF id
<1>1. jpg.img_n \in 1..4
  BY DEF Sized
<1>2. T # {} /\ T \subseteq 1..4
  BY <1>1 DEF id
<1>3. PICK n \in T : \A c \in T : n <= c
  <2> HIDE DEF T
  <2>1. 1 \in T \/ 2 \in T \/ 3 \in T \/ 4 \in T
    <3>1. PICK t : t \in T
      BY <1>2, Zenon
    <3>2. t \in 1..4
      BY <1>2, <3>1, Zenon
    <3>3. t = 1 \/ t = 2 \/ t = 3 \/ t = 4
      BY <3>2
    <3> QED BY <3>1, <3>3, Zenon
  <2> QED BY <1>2, <2>1
<1>4. ASSUME NEW l \in 1..n - 1 PROVE jpg.comp[l].id # jpg.comp[n].id
  <2>1. l \in 1..jpg.img_n /\ ~ (n <= l)
    BY <1>1, <1>3
  <2> QED BY <1>3, <2>1, Zenon
<1>5. n \in 1..jpg.img_n /\ OK(n)
  BY <1>3, <1>4, Zenon
<1>6. Chosen(p, i) = CHOOSE c \in 1..jpg.img_n : OK(c)
  BY Zenon DEF Chosen, id
<1> HIDE DEF OK
<1> QED BY <1>5, <1>6, Zenon

\* The blocks of an MCU.
LEMMA McuTyped ==
  ASSUME Sized(jpg), NEW n \in 1..jpg.img_n, NEW order \in [1..n -> 1..jpg.img_n]
  PROVE  LET mcu == Mcu(jpg, order)
             S == (1..jpg.img_n) \X (0..3) \X (0..3)
         IN /\ mcu \in Seq(S) /\ 1 \in 1..Len(mcu)
            /\ n = 1 => Len(mcu) = 1 /\ mcu[1][1] = order[1]
            /\ n # 1 => \A e \in 1..Len(mcu) : /\ mcu[e][2] < jpg.comp[mcu[e][1]].h
                                               /\ mcu[e][3] < jpg.comp[mcu[e][1]].v
<1> DEFINE S == (1..jpg.img_n) \X (0..3) \X (0..3)
           R == {t \in S : t[2] < jpg.comp[t[1]].h /\ t[3] < jpg.comp[t[1]].v}
           C(k) == jpg.comp[order[k]]
           Blocks(k) == IF k > Len(order) THEN <<>>
                        ELSE [e \in 1..C(k).h * C(k).v |-> <<order[k], (e - 1) % C(k).h, (e - 1) \div C(k).h>>]
           all == Blocks(1) \o Blocks(2) \o Blocks(3) \o Blocks(4)
           mcu == Mcu(jpg, order)
<1>1. n \in Nat \ {0} /\ Len(order) = n /\ jpg.img_n \in Nat
  BY DEF Sized
<1>2. mcu = IF n = 1 THEN <<<<order[1], 0, 0>>>> ELSE all
  BY <1>1, Zenon DEF Mcu
<1>3. ASSUME NEW k \in Nat \ {0} PROVE Blocks(k) \in Seq(R) /\ (k = 1 => Len(Blocks(k)) >= 1)
  <2>1. CASE k > n
    <3>1. Blocks(k) = <<>> /\ k # 1
      BY <1>1, <2>1
    <3>2. <<>> \in Seq(R)
      <4> HIDE DEF R
      <4> QED OBVIOUS
    <3> QED BY <3>1, <3>2, Zenon
  <2>2. CASE ~ (k > n)
    <3> DEFINE o == order[k]
               c == jpg.comp[o]
               h == c.h
               v == c.v
               B(e) == <<o, (e - 1) % h, (e - 1) \div h>>
    <3>1. k \in 1..n
      BY <1>1, <2>2
    <3>2. o \in 1..jpg.img_n
      BY <3>1
    <3>3. Blocks(k) = [e \in 1..h * v |-> B(e)]
      BY <1>1, <2>2, Zenon
    <3> HIDE DEF o
    <3>4. jpg.x \in Nat \ {0} /\ jpg.y \in Nat \ {0} /\ <<h, jpg.hmax>> \in Factors /\ <<v, jpg.vmax>> \in Factors
      BY <3>2, Zenon DEF Sized
    <3>5. h \in 1..4 /\ v \in 1..4
      BY <3>4, PlaneRoom, Zenon
    <3>6. ASSUME NEW e \in 1..h * v PROVE B(e) \in R
      <4> DEFINE hv == h * v
                 x == (e - 1) % h
                 y == (e - 1) \div h
      <4>1. hv \in Nat /\ h \in Nat \ {0} /\ v \in Nat /\ e - 1 \in Nat /\ e - 1 < hv /\ hv <= h * v
        <5>1. hv \in Nat
          BY <3>5, Product, Zenon
        <5>2. h \in Nat \ {0} /\ v \in Nat
          BY <3>5
        <5>3. e \in 1..hv
          BY Zenon
        <5>4. hv <= h * v
          <6>1. \A m \in Nat : m <= m
            OBVIOUS
          <6> QED BY <5>1, <6>1, Zenon
        <5> HIDE DEF hv
        <5>5. e - 1 \in Nat /\ e - 1 < hv
          BY <5>1, <5>3
        <5> QED BY <5>1, <5>2, <5>4, <5>5, Zenon
      <4> DEFINE e1 == e - 1
      <4>2. e1 % h \in 0..h - 1 /\ e1 \div h \in 0..v - 1
        <5> HIDE DEF e1, hv, h, v
        <5>1. hv \in Nat /\ h \in Nat \ {0} /\ v \in Nat /\ e1 \in Nat /\ e1 < hv /\ hv <= h * v
          BY <4>1, Zenon DEF e1
        <5> QED BY <5>1, RowColumn, Zenon
      <4>3. x \in 0..h - 1 /\ y \in 0..v - 1
        BY <4>2, Zenon
      <4> HIDE DEF x, y
      <4>4. x \in 0..3 /\ y \in 0..3 /\ x < h /\ y < v
        BY <3>5, <4>3
      <4>5. <<o, x, y>> \in R
        <5> DEFINE t == <<o, x, y>>
        <5>1. t \in S /\ t[1] = o /\ t[2] = x /\ t[3] = y
          BY <3>2, <4>4
        <5> HIDE DEF t
        <5> QED BY <4>4, <5>1, Zenon DEF t
      <4> QED BY <4>5, Zenon DEF x, y
    <3>7. h * v \in Nat /\ h * v >= 1
      BY <3>5, Product, Zenon
    <3> DEFINE hv == h * v
    <3>8. Blocks(k) = [e \in 1..hv |-> B(e)] /\ hv \in Nat /\ hv >= 1 /\ \A e \in 1..hv : B(e) \in R
      BY <3>3, <3>6, <3>7, Zenon
    <3> HIDE DEF hv, B, R, Blocks
    <3> QED BY <3>8
  <2> QED BY <2>1, <2>2, Zenon
<1>4. all \in Seq(R) /\ Len(all) >= 1
  <2> DEFINE a == Blocks(1)
             b == Blocks(2)
             c == Blocks(3)
             d == Blocks(4)
  <2>1. 1 \in Nat \ {0} /\ 2 \in Nat \ {0} /\ 3 \in Nat \ {0} /\ 4 \in Nat \ {0}
    OBVIOUS
  <2>2. a \in Seq(R) /\ b \in Seq(R) /\ c \in Seq(R) /\ d \in Seq(R) /\ Len(a) >= 1
    BY <1>3, <2>1, Zenon
  <2> HIDE DEF a, b, c, d, R
  <2>3. a \o b \o c \o d \in Seq(R) /\ Len(a \o b \o c \o d) >= 1
    BY <2>2
  <2> QED BY <2>3, Zenon DEF a, b, c, d
<1>5. CASE n = 1
  <2> DEFINE t == <<order[1], 0, 0>>
  <2>1. t \in S /\ t[1] = order[1]
    BY <1>5
  <2>2. mcu = <<t>>
    BY <1>2, <1>5, Zenon
  <2> HIDE DEF t, S, mcu
  <2>3. mcu \in Seq(S) /\ Len(mcu) = 1 /\ mcu[1] = t
    BY <2>1, <2>2
  <2>4. 1 \in 1..Len(mcu)
    BY <2>3
  <2> QED BY <1>5, <2>1, <2>3, <2>4, Zenon DEF mcu, S
<1>6. CASE n # 1
  <2>1. mcu = all
    BY <1>2, <1>6, Zenon
  <2> HIDE DEF all, mcu
  <2>2. mcu \in Seq(S) /\ 1 \in 1..Len(mcu)
    <3>1. R \subseteq S
      BY Zenon
    <3> HIDE DEF R, S
    <3> QED BY <1>4, <2>1, <3>1
  <2>3. ASSUME NEW e \in 1..Len(mcu) PROVE mcu[e] \in R
    <3> HIDE DEF R
    <3> QED BY <1>4, <2>1, <2>3, ElementOf, Zenon
  <2>4. \A e \in 1..Len(mcu) : mcu[e][2] < jpg.comp[mcu[e][1]].h /\ mcu[e][3] < jpg.comp[mcu[e][1]].v
    BY <2>3, Zenon
  <2> QED BY <1>6, <2>2, <2>4, Zenon DEF mcu
<1> QED BY <1>5, <1>6, Zenon

\* A scan header: its MCUs and blocks are those of the frame.
LEMMA ScanHeaderSound ==
  ASSUME Bytes, Sound, scan_header
  PROVE  Sound' /\ file' = file /\ lpc' # "idle"
<1> DEFINE p == rd.pos
           n == Byte(p + 2)
           q == p + 3 + 2 * n
           order == [i \in 1..n |-> Chosen(p, i)]
           B(i) == Byte(p + 2 + 2 * i)
           Is(c) == {i \in 1..n : order[i] = c}
           Tables(c) == IF Is(c) = {} THEN jpg.comp[c]
                        ELSE [jpg.comp[c] EXCEPT !.hd = B(Max(Is(c))) \div 16, !.ha = B(Max(Is(c))) % 16]
           comp == [c \in DOMAIN jpg.comp |-> Tables(c)]
           one == jpg.comp[order[1]]
           across == IF n = 1 THEN scan_blocks(jpg.x, one.h, jpg.hmax) ELSE img_mcu(jpg.x, jpg.hmax)
           down == IF n = 1 THEN scan_blocks(jpg.y, one.v, jpg.vmax) ELSE img_mcu(jpg.y, jpg.vmax)
           mcu == Mcu(jpg, order)
           many == n > 1
           total == across * down
           ss == Byte(q)
           se == IF jpg.progressive THEN Byte(q + 1) ELSE 63
           ah == Byte(q + 2) \div 16
           al == Byte(q + 2) % 16
           r0 == [rd EXCEPT !.pos = q + 3]
           pred == <<0, 0, 0, 0>>
           every == IF jpg.restart_interval > 0 THEN jpg.restart_interval ELSE INT_MAX
           s0 == [NoScan EXCEPT !.mcu = mcu, !.interleaved = many, !.across = across, !.total = total,
                                !.ss = ss, !.se = se, !.ah = ah, !.al = al]
           s1 == [s0 EXCEPT !.dc_pred = pred, !.eob_run = 0, !.todo = every]
<1>1. lpc = "image"
  BY Zenon DEF scan_header
<1>2. rd \in Reader /\ IsJpg(jpg) /\ Framed /\ Sized(jpg)
  BY <1>1, Zenon DEF Sound, Framed
<1>3. \/ jpeg_fail
      \/ /\ ScanOk(p) /\ jpg' = [jpg EXCEPT !.comp = comp] /\ scan' = s1 /\ rd' = Reset(r0)
         /\ lpc' = "scan" /\ file' = file /\ planes' = planes
  BY Zenon DEF scan_header, ResetScan
<1>4. CASE jpeg_fail
  BY <1>4, FailSound, Zenon
<1>5. CASE /\ ScanOk(p) /\ jpg' = [jpg EXCEPT !.comp = comp] /\ scan' = s1 /\ rd' = Reset(r0)
           /\ lpc' = "scan" /\ file' = file /\ planes' = planes
  <2>1. p \in Nat
    BY <1>2 DEF Reader
  <2>2. /\ n \in 1..jpg.img_n
        /\ \A i \in 1..n : /\ \E c \in 1..jpg.img_n : jpg.comp[c].id = Byte(p + 1 + 2 * i)
                           /\ B(i) \div 16 <= 3 /\ B(i) % 16 <= 3
        /\ jpg.progressive => Byte(q) <= Byte(q + 1) /\ Byte(q + 1) <= 63
    BY <1>5, Zenon DEF ScanOk
  <2> HIDE DEF p
  <2>3. jpg.img_n \in {1, 3, 4}
    BY <1>2, Zenon DEF Sized
  <2>4. order \in [1..n -> 1..jpg.img_n]
    <3>1. ASSUME NEW i \in 1..n PROVE Chosen(p, i) \in 1..jpg.img_n
      BY <1>2, <2>2, ChosenTyped, Zenon
    <3> HIDE DEF n
    <3> QED BY <3>1
  <2> HIDE DEF n, order
  <2>5. n \in 1..4 /\ n \in Nat
    BY <2>2, <2>3
  <2>6. q \in Nat
    BY <2>1, <2>5
  <2>7. \A i \in 1..n : B(i) \div 16 \in 0..3 /\ B(i) % 16 \in 0..3
    <3> SUFFICES ASSUME NEW i \in 1..n PROVE B(i) \div 16 \in 0..3 /\ B(i) % 16 \in 0..3
      BY Zenon
    <3>1. p + 2 + 2 * i \in Nat
      BY <2>1, <2>5
    <3>2. B(i) \in Octet /\ B(i) \div 16 <= 3 /\ B(i) % 16 <= 3
      BY <2>2, <3>1, ByteRange, Zenon
    <3> DEFINE b == B(i)
    <3> HIDE DEF b
    <3>3. b \in Octet /\ b \div 16 <= 3 /\ b % 16 <= 3
      BY <3>2, Zenon DEF b
    <3>4. b \div 16 \in 0..3 /\ b % 16 \in 0..3
      BY <3>3 DEF Octet
    <3> QED BY <3>4, Zenon DEF b
  <2> HIDE DEF q, B
  <2>8. ASSUME NEW c \in 1..jpg.img_n
        PROVE  /\ DOMAIN Tables(c) = CompFields /\ Tables(c).hd \in 0..3 /\ Tables(c).ha \in 0..3
               /\ Tables(c).h = jpg.comp[c].h /\ Tables(c).v = jpg.comp[c].v
    <3>1. DOMAIN jpg.comp[c] = CompFields /\ jpg.comp[c].hd \in 0..3 /\ jpg.comp[c].ha \in 0..3
      BY <1>2, Zenon DEF Sized
    <3>2. CASE Is(c) = {}
      <4>1. Tables(c) = jpg.comp[c]
        BY <3>2, Zenon
      <4> QED BY <3>1, <4>1, Zenon
    <3>3. CASE Is(c) # {}
      <4> DEFINE k == Max(Is(c))
                 d == B(k) \div 16
                 a == B(k) % 16
      <4>1. Is(c) \subseteq 1..4 /\ Is(c) \subseteq 1..n
        BY <2>5
      <4>2. k \in 1..n
        <5> DEFINE I == Is(c)
        <5> HIDE DEF I
        <5>1. I # {} /\ I \subseteq 1..4 /\ I \subseteq 1..n
          BY <3>3, <4>1, Zenon DEF I
        <5>2. Max(I) \in I
          BY <5>1, MaxFactor, Zenon
        <5> QED BY <5>1, <5>2, Zenon DEF I
      <4>3. d \in 0..3 /\ a \in 0..3
        BY <2>7, <4>2, Zenon
      <4>4. Tables(c) = [jpg.comp[c] EXCEPT !.hd = d, !.ha = a]
        BY <3>3, Zenon
      <4> DEFINE t == Tables(c)
                 u == jpg.comp[c]
      <4> HIDE DEF d, a, t, u
      <4>5. t = [u EXCEPT !.hd = d, !.ha = a] /\ DOMAIN u = CompFields
        BY <3>1, <4>4, Zenon DEF t, u
      <4>6. DOMAIN t = CompFields /\ t.hd = d /\ t.ha = a /\ t.h = u.h /\ t.v = u.v
        BY <4>5 DEF CompFields
      <4> QED BY <4>3, <4>6, Zenon DEF t, u
    <3> QED BY <3>2, <3>3, Zenon
  <2> HIDE DEF Tables
  <2>9. DOMAIN comp = 1..jpg.img_n /\ \A c \in 1..jpg.img_n : comp[c] = Tables(c)
    BY <1>2, Zenon DEF Sized
  <2> HIDE DEF comp
  <2>10. /\ DOMAIN jpg' = JpgFields /\ jpg'.img_n = jpg.img_n /\ jpg'.x = jpg.x /\ jpg'.y = jpg.y
         /\ jpg'.progressive = jpg.progressive /\ jpg'.comp = comp /\ jpg'.hmax = jpg.hmax /\ jpg'.vmax = jpg.vmax
         /\ jpg'.huff_dc = jpg.huff_dc /\ jpg'.huff_ac = jpg.huff_ac /\ jpg'.dequant = jpg.dequant
    <3>1. DOMAIN jpg = JpgFields /\ jpg' = [jpg EXCEPT !.comp = comp]
      BY <1>2, <1>5, Zenon DEF IsJpg
    <3> QED BY <3>1 DEF JpgFields
  <2>11. IsJpg(jpg') /\ Sized(jpg')
    <3>1. IsJpg(jpg')
      BY <1>2, <2>10, Zenon DEF IsJpg, TablesOk
    <3>2. Sized(jpg')
      <4>1. ASSUME NEW c \in 1..jpg.img_n
            PROVE  /\ DOMAIN comp[c] = CompFields /\ comp[c].hd \in 0..3 /\ comp[c].ha \in 0..3
                   /\ <<comp[c].h, jpg.hmax>> \in Factors /\ <<comp[c].v, jpg.vmax>> \in Factors
        <5>1. <<jpg.comp[c].h, jpg.hmax>> \in Factors /\ <<jpg.comp[c].v, jpg.vmax>> \in Factors
          BY <1>2, Zenon DEF Sized
        <5>2. comp[c] = Tables(c)
          BY <2>9, Zenon
        <5> QED BY <2>8, <5>1, <5>2, Zenon
      <4>2. jpg.x \in Nat \ {0} /\ jpg.y \in Nat \ {0}
        BY <1>2, Zenon DEF Sized
      <4> QED BY <2>3, <2>9, <2>10, <4>1, <4>2, Zenon DEF Sized
    <3> QED BY <3>1, <3>2, Zenon
  <2>12. Framed'
    <3>1. \A c \in 1..jpg.img_n : Blank(jpg', c) = Blank(jpg, c)
      BY <2>8, <2>9, <2>10, Zenon DEF Blank, PlaneW, PlaneH
    <3>2. DOMAIN planes = 1..jpg.img_n /\ \A c \in 1..jpg.img_n : DOMAIN planes[c] = Blank(jpg, c)
      BY <1>2, Zenon DEF Framed
    <3> QED BY <1>5, <2>10, <2>11, <3>1, <3>2, Zenon DEF Framed
  <2>13. rd' \in Reader
    <3> DEFINE q3 == q + 3
               none == <<>>
               no == FALSE
    <3>1. q3 \in Nat /\ MARKER_none \in Octet
      BY <2>6 DEF MARKER_none, Octet
    <3>2. none \in Seq(ZeroOne) /\ no \in BOOLEAN
      OBVIOUS
    <3> HIDE DEF q3, none, no
    <3>3. [rd EXCEPT !.pos = q3] \in Reader
      BY <1>2, <3>1 DEF Reader
    <3> DEFINE r == [rd EXCEPT !.pos = q3]
    <3> HIDE DEF r
    <3>4. r \in Reader
      BY <3>3, Zenon DEF r
    <3>5. [r EXCEPT !.bits = none, !.nomore = no, !.marker = MARKER_none] \in Reader
      BY <3>1, <3>2, <3>4, Zenon DEF Reader
    <3> QED BY <1>5, <3>5, Zenon DEF Reset, r, q3, none, no
  <2>14. Scans(jpg', scan')
    <3> DEFINE S == (1..jpg.img_n) \X (0..3) \X (0..3)
    <3>1. /\ mcu \in Seq(S) /\ 1 \in 1..Len(mcu)
          /\ n = 1 => Len(mcu) = 1 /\ mcu[1][1] = order[1]
          /\ n # 1 => \A e \in 1..Len(mcu) : /\ mcu[e][2] < jpg.comp[mcu[e][1]].h
                                             /\ mcu[e][3] < jpg.comp[mcu[e][1]].v
      BY <1>2, <2>2, <2>4, McuTyped, Zenon
    <3>2. \A c \in 1..jpg.img_n : /\ img_mcu(jpg.x, jpg.hmax) \in Nat \ {0} /\ img_mcu(jpg.y, jpg.vmax) \in Nat \ {0}
                                  /\ scan_blocks(jpg.x, jpg.comp[c].h, jpg.hmax) \in Nat \ {0}
                                  /\ scan_blocks(jpg.y, jpg.comp[c].v, jpg.vmax) \in Nat \ {0}
      <4> SUFFICES ASSUME NEW c \in 1..jpg.img_n
                   PROVE  /\ img_mcu(jpg.x, jpg.hmax) \in Nat \ {0} /\ img_mcu(jpg.y, jpg.vmax) \in Nat \ {0}
                          /\ scan_blocks(jpg.x, jpg.comp[c].h, jpg.hmax) \in Nat \ {0}
                          /\ scan_blocks(jpg.y, jpg.comp[c].v, jpg.vmax) \in Nat \ {0}
        BY Zenon
      <4>1. /\ jpg.x \in Nat \ {0} /\ jpg.y \in Nat \ {0}
            /\ <<jpg.comp[c].h, jpg.hmax>> \in Factors /\ <<jpg.comp[c].v, jpg.vmax>> \in Factors
        BY <1>2, Zenon DEF Sized
      <4> QED BY <4>1, PlaneRoom, Zenon
    <3>3. order[1] \in 1..jpg.img_n
      <4>1. 1 \in 1..n
        BY <2>5
      <4> QED BY <2>4, <4>1, Zenon
    <3>4. across \in Nat \ {0} /\ down \in Nat \ {0}
      BY <3>2, <3>3, Zenon
    <3> HIDE DEF mcu
    <3>5. ss \in Nat /\ se \in 0..63 /\ (jpg.progressive => ss <= se)
      <4>1. q + 1 \in Nat
        BY <2>6
      <4> DEFINE b0 == Byte(q)
                 b1 == Byte(q + 1)
      <4>2. b0 \in Octet /\ b1 \in Octet /\ (jpg.progressive => b0 <= b1 /\ b1 <= 63)
        BY <2>2, <2>6, <4>1, ByteRange, Zenon DEF q
      <4> HIDE DEF b0, b1
      <4>3. b0 \in Nat /\ (jpg.progressive => b1 \in 0..63 /\ b0 <= b1) /\ 63 \in 0..63
        BY <4>2 DEF Octet
      <4>4. ss = b0 /\ se = IF jpg.progressive THEN b1 ELSE 63
        BY Zenon DEF b0, b1
      <4> HIDE DEF ss, se
      <4> QED BY <4>3, <4>4, Zenon
    <3> HIDE DEF ss, se, ah, al, pred, every, across, down, many
    <3>6. total \in Nat /\ total <= across * down
      BY <3>4
    <3> HIDE DEF total
    <3>7. /\ DOMAIN s0 = ScanFields /\ s0.mcu = mcu /\ s0.interleaved = many /\ s0.across = across
          /\ s0.total = total /\ s0.at = 0 /\ s0.b = 1 /\ s0.ss = ss /\ s0.se = se
      BY DEF NoScan, ScanFields
    <3> HIDE DEF s0
    <3>8. /\ DOMAIN s1 = ScanFields /\ s1.mcu = mcu /\ s1.interleaved = many /\ s1.across = across
          /\ s1.total = total /\ s1.at = 0 /\ s1.b = 1 /\ s1.ss = ss /\ s1.se = se
      BY <3>7 DEF ScanFields
    <3> HIDE DEF s1
    <3>9. 0 \in 0..total
      BY <3>6
    <3>10. Rows(s1, down)
      BY <3>4, <3>6, <3>8, <3>9, Zenon DEF Rows
    <3>11. many \in BOOLEAN /\ (many <=> n # 1)
      BY <2>5 DEF many
    <3>12. \A c \in 1..jpg.img_n : jpg'.comp[c].h = jpg.comp[c].h /\ jpg'.comp[c].v = jpg.comp[c].v
      BY <2>8, <2>9, <2>10, Zenon
    <3>13. ASSUME NEW e \in 1..Len(mcu) PROVE mcu[e][1] \in 1..jpg.img_n
      <4> DEFINE t == mcu[e]
      <4>1. t \in S
        <5> HIDE DEF S
        <5> QED BY <3>1, ElementOf, Zenon
      <4> HIDE DEF t
      <4>2. t[1] \in 1..jpg.img_n
        BY <4>1
      <4> QED BY <4>2, Zenon DEF t
    <3>14. CASE many
      <4>1. across = img_mcu(jpg.x, jpg.hmax) /\ down = img_mcu(jpg.y, jpg.vmax)
        BY <3>11, <3>14, Zenon DEF across, down
      <4>2. \A e \in 1..Len(mcu) : mcu[e][2] < jpg'.comp[mcu[e][1]].h /\ mcu[e][3] < jpg'.comp[mcu[e][1]].v
        BY <3>1, <3>11, <3>12, <3>13, <3>14, Zenon
      <4>3. s1.interleaved
        BY <3>8, <3>14, Zenon
      <4>4. Scans(jpg', s1)
        BY <2>10, <3>1, <3>5, <3>8, <3>10, <3>11, <4>1, <4>2, <4>3, Zenon DEF Scans
      <4> QED BY <1>5, <4>4, Zenon
    <3>15. CASE ~ many
      <4>1. n = 1
        BY <3>11, <3>15, Zenon
      <4>2. across = scan_blocks(jpg.x, jpg.comp[order[1]].h, jpg.hmax)
            /\ down = scan_blocks(jpg.y, jpg.comp[order[1]].v, jpg.vmax)
        BY <4>1, Zenon DEF across, down
      <4>3. Len(mcu) = 1 /\ mcu[1][1] = order[1]
        BY <3>1, <4>1, Zenon
      <4>4. ~ s1.interleaved
        BY <3>8, <3>15, Zenon
      <4>5. Scans(jpg', s1)
        BY <2>10, <3>1, <3>3, <3>5, <3>8, <3>10, <3>11, <3>12, <4>2, <4>3, <4>4, Zenon DEF Scans
      <4> QED BY <1>5, <4>5, Zenon
    <3> QED BY <3>14, <3>15, Zenon
  <2>15. lpc' \notin {"line", "ac", "refine", "advance", "block", "idle"}
    BY <1>5
  <2> QED BY <1>5, <2>11, <2>12, <2>13, <2>14, <2>15, Zenon DEF Sound, InBlock
<1> QED BY <1>3, <1>4, <1>5, Zenon

\* A frame that is accepted is one the planes are sized for.
LEMMA FrameSized ==
  ASSUME Bytes, IsJpg(jpg), NEW p \in Nat, NEW f, f = Frame(p), FrameOk(p, f)
  PROVE  IsJpg(f) /\ Sized(f)
<1> DEFINE c == Byte(p + 7)
           comp == [i \in 1..c |-> FrameComp(p, i)]
           hs == {1} \cup {comp[i].h : i \in 1..c}
           vs == {1} \cup {comp[i].v : i \in 1..c}
           y == Word(p + 3)
           x == Word(p + 5)
           hm == Max(hs)
           vm == Max(vs)
           prog == mark = 194
<1>1. f = [jpg EXCEPT !.y = y, !.x = x, !.img_n = c, !.comp = comp, !.hmax = hm, !.vmax = vm, !.progressive = prog]
  BY Zenon DEF Frame
<1>2. /\ f.x \in 1..MAX_DIMENSIONS /\ f.y \in 1..MAX_DIMENSIONS /\ f.img_n \in {1, 3, 4}
      /\ \A i \in 1..f.img_n : /\ f.comp[i].h \in 1..4 /\ f.hmax % f.comp[i].h = 0
                               /\ f.comp[i].v \in 1..4 /\ f.vmax % f.comp[i].v = 0
  BY Zenon DEF FrameOk
<1>3. ASSUME NEW i \in 1..c
      PROVE  DOMAIN comp[i] = CompFields /\ comp[i].hd = 0 /\ comp[i].ha = 0
  <2> DEFINE q == Byte(p + 6 + 3 * i)
             id == Byte(p + 5 + 3 * i)
             tq == Byte(p + 7 + 3 * i)
             h == q \div 16
             v == q % 16
  <2>1. comp[i] = [id |-> id, h |-> h, v |-> v, tq |-> tq, hd |-> 0, ha |-> 0]
    BY Zenon DEF FrameComp
  <2> HIDE DEF id, h, v, tq, comp
  <2> QED BY <2>1 DEF CompFields
<1>4. DOMAIN comp = 1..c
  BY Zenon
<1> HIDE DEF c, comp, y, x, hm, vm, prog
<1>5. /\ f.x = x /\ f.y = y /\ f.img_n = c /\ f.comp = comp /\ f.hmax = hm /\ f.vmax = vm
      /\ DOMAIN f = JpgFields /\ f.huff_dc = jpg.huff_dc /\ f.huff_ac = jpg.huff_ac /\ f.dequant = jpg.dequant
  BY <1>1 DEF IsJpg, JpgFields
<1>6. IsJpg(f)
  BY <1>5, Zenon DEF IsJpg, TablesOk
<1>7. f.x \in Nat \ {0} /\ f.y \in Nat \ {0}
  BY <1>2, DimensionsAssumption
<1>8. hs \subseteq 1..4 /\ vs \subseteq 1..4 /\ 1 \in hs /\ 1 \in vs
  BY <1>2, <1>5
<1>9. /\ hm \in hs /\ \A k \in hs : hm >= k
      /\ vm \in vs /\ \A k \in vs : vm >= k
  <2> HIDE DEF hs, vs
  <2> QED BY <1>8, MaxFactor, Zenon DEF hm, vm
<1>10. ASSUME NEW i \in 1..c PROVE <<comp[i].h, hm>> \in Factors /\ <<comp[i].v, vm>> \in Factors
  <2>1. comp[i].h \in hs /\ comp[i].v \in vs
    BY Zenon
  <2>2. /\ comp[i].h \in 1..4 /\ hm \in 1..4 /\ comp[i].h <= hm /\ hm % comp[i].h = 0
        /\ comp[i].v \in 1..4 /\ vm \in 1..4 /\ comp[i].v <= vm /\ vm % comp[i].v = 0
    <3> HIDE DEF hs, vs
    <3>1. hm \in 1..4 /\ vm \in 1..4 /\ hm >= comp[i].h /\ vm >= comp[i].v
      BY <1>8, <1>9, <2>1, Zenon
    <3>2. comp[i].h \in 1..4 /\ hm % comp[i].h = 0 /\ comp[i].v \in 1..4 /\ vm % comp[i].v = 0
      BY <1>2, <1>5, Zenon
    <3> QED BY <3>1, <3>2
  <2> DEFINE a == comp[i].h
             b == comp[i].v
  <2> HIDE DEF a, b
  <2>3. <<a, hm>> \in Factors /\ <<b, vm>> \in Factors
    BY <2>2 DEF Factors, a, b
  <2> QED BY <2>3, Zenon DEF a, b
<1>11. 0 \in 0..3
  OBVIOUS
<1> QED BY <1>2, <1>3, <1>4, <1>5, <1>6, <1>7, <1>10, <1>11, Zenon DEF Sized

\* A new prediction.
LEMMA PredKeeps ==
  ASSUME NEW j, NEW s, Scans(j, s), NEW c, NEW v
  PROVE  Scans(j, [s EXCEPT !.dc_pred[c] = v]) /\ [s EXCEPT !.dc_pred[c] = v].at = s.at
         /\ [s EXCEPT !.dc_pred[c] = v].total = s.total
<1> DEFINE t == [s EXCEPT !.dc_pred[c] = v]
<1>1. DOMAIN s = ScanFields
  BY Zenon DEF Scans
<1>2. /\ DOMAIN t = ScanFields /\ t.mcu = s.mcu /\ t.interleaved = s.interleaved
      /\ t.across = s.across /\ t.total = s.total /\ t.at = s.at /\ t.b = s.b /\ t.ss = s.ss /\ t.se = s.se
  BY <1>1 DEF ScanFields
<1> HIDE DEF t
<1>3. Scans(j, t)
  BY <1>2, ScanKeeps, Zenon
<1> QED BY <1>2, <1>3, Zenon DEF t

\* A new length of the run of empty blocks.
LEMMA RunKeeps ==
  ASSUME NEW j, NEW s, Scans(j, s), NEW v
  PROVE  LET t == [s EXCEPT !.eob_run = v]
         IN Scans(j, t) /\ t.at = s.at /\ t.total = s.total /\ t.se = s.se
<1> DEFINE t == [s EXCEPT !.eob_run = v]
<1>1. DOMAIN s = ScanFields
  BY Zenon DEF Scans
<1>2. /\ DOMAIN t = ScanFields /\ t.mcu = s.mcu /\ t.interleaved = s.interleaved
      /\ t.across = s.across /\ t.total = s.total /\ t.at = s.at /\ t.b = s.b /\ t.ss = s.ss /\ t.se = s.se
  BY <1>1 DEF ScanFields
<1> HIDE DEF t
<1>3. Scans(j, t)
  BY <1>2, ScanKeeps, Zenon
<1> QED BY <1>2, <1>3, Zenon DEF t

\* A scan that has moved on, or is cut short.
LEMMA ScanMoves ==
  ASSUME NEW j, Sized(j), NEW s, Scans(j, s), NEW t, DOMAIN t = ScanFields, t.mcu = s.mcu,
         t.interleaved = s.interleaved, t.across = s.across, t.ss = s.ss, t.se = s.se,
         t.total \in Nat, t.total <= s.total, t.at \in 0..t.total, t.b \in 1..Len(t.mcu)
  PROVE  Scans(j, t)
<1>1. ASSUME NEW down \in Nat, Rows(s, down) PROVE Rows(t, down)
  <2>1. s.across \in Nat /\ s.total \in Nat /\ s.total <= s.across * down /\ s.across \in Nat \ {0}
    BY <1>1 DEF Rows
  <2> DEFINE a == s.across * down
  <2>2. a \in Nat /\ s.total <= a
    BY <2>1
  <2> HIDE DEF a
  <2>3. t.total <= a
    BY <2>1, <2>2
  <2> QED BY <2>1, <2>3, Zenon DEF Rows, a
<1> DEFINE S == (1..j.img_n) \X (0..3) \X (0..3)
           n == s.mcu[1][1]
           c == j.comp[n]
<1>2. n \in 1..j.img_n
  <2> DEFINE e == s.mcu[1]
  <2>1. 1 \in 1..Len(s.mcu)
    <3>1. s.b \in 1..Len(s.mcu) /\ s.mcu \in Seq(S)
      BY Zenon DEF Scans
    <3>2. Len(s.mcu) \in Nat
      <4> HIDE DEF S
      <4> QED BY <3>1
    <3> QED BY <3>1, <3>2
  <2>2. e \in S
    <3> HIDE DEF S
    <3>1. s.mcu \in Seq(S)
      BY Zenon DEF Scans, S
    <3> QED BY <2>1, <3>1, ElementOf, Zenon
  <2> HIDE DEF e
  <2>3. e[1] \in 1..j.img_n
    BY <2>2
  <2> QED BY <2>3, Zenon DEF e
<1> HIDE DEF n
<1>3. img_mcu(j.y, j.vmax) \in Nat /\ scan_blocks(j.y, c.v, j.vmax) \in Nat
  <2>1. \A k : k \in Nat \ {0} => k \in Nat
    OBVIOUS
  <2>2. j.y \in Nat \ {0} /\ <<c.v, j.vmax>> \in Factors
    BY <1>2, Zenon DEF Sized
  <2> HIDE DEF c
  <2> QED BY <2>1, <2>2, PlaneRoom, Zenon
<1> QED BY <1>1, <1>3, Zenon DEF Scans, n

-----------------------------------------------------------------------------
(* Induction, and functions defined by recursion over an interval.           *)

LOCAL INSTANCE WellFoundedInduction

\* A set of natural numbers that is not empty has a least element.
LEMMA Least ==
  ASSUME NEW T, T \subseteq Nat, T # {}
  PROVE  \E x \in T : \A y \in T : x <= y
<1> DEFINE R == {ss \in Nat \X Nat : ss[1] < ss[2]}
<1>1. IsWellFoundedOn(R, Nat)
  BY NatLessThanWellFounded DEF OpToRel
<1> HIDE DEF R
<1>2. PICK x \in T : \A y \in T : ~ (<<y, x>> \in R)
  BY <1>1, WFMin, Zenon
<1>3. \A y \in T : ~ (y < x)
  BY <1>2 DEF R
<1> QED BY <1>3

\* Induction up to N: a set with 0 and the successors below N of its elements.
LEMMA Induction ==
  ASSUME NEW N \in Nat, NEW S, 0 \in S, \A n \in 0..N - 1 : n \in S => n + 1 \in S
  PROVE  0..N \subseteq S
<1> SUFFICES ASSUME (0..N) \ S # {} PROVE FALSE
  BY Zenon
<1>1. (0..N) \ S \subseteq Nat
  OBVIOUS
<1>2. PICK m \in (0..N) \ S : \A y \in (0..N) \ S : m <= y
  <2> DEFINE T == (0..N) \ S
  <2>1. T # {} /\ T \subseteq Nat
    BY <1>1, Zenon
  <2> HIDE DEF T
  <2>2. \E x \in T : \A y \in T : x <= y
    BY <2>1, Least, Zenon
  <2> QED BY <2>2, Zenon DEF T
<1>3. m # 0 /\ m - 1 \in 0..N - 1
  BY <1>2
<1>4. m - 1 \in S
  BY <1>2, <1>3
<1>5. (m - 1) + 1 = m
  BY <1>3
<1> QED BY <1>2, <1>3, <1>4, <1>5, Zenon

\* g goes N steps from a in A; step i is F[<<i, x>>].
Runs(g, A, a, N, F) == g \in [0..N -> A] /\ g[0] = a /\ \A i \in 1..N : g[i] = F[<<i, g[i - 1]>>]

\* N steps can be taken.
LEMMA Iterate ==
  ASSUME NEW A, NEW a \in A, NEW N \in Nat, NEW F \in [(1..N) \X A -> A]
  PROVE  \E g : Runs(g, A, a, N, F)
<1> DEFINE P(n) == \E g \in [0..n -> A] : g[0] = a /\ \A i \in 1..n : g[i] = F[<<i, g[i - 1]>>]
           S == {n \in 0..N : P(n)}
<1>1. 0 \in S
  <2> DEFINE g == [i \in 0..0 |-> a]
  <2>1. g \in [0..0 -> A] /\ g[0] = a /\ \A i \in 1..0 : g[i] = F[<<i, g[i - 1]>>]
    OBVIOUS
  <2> HIDE DEF g
  <2> QED BY <2>1
<1>2. ASSUME NEW n \in 0..N - 1, n \in S PROVE n + 1 \in S
  <2>1. PICK g \in [0..n -> A] : g[0] = a /\ \A i \in 1..n : g[i] = F[<<i, g[i - 1]>>]
    BY <1>2, Zenon
  <2> DEFINE e == F[<<n + 1, g[n]>>]
             h == [i \in 0..n + 1 |-> IF i = n + 1 THEN e ELSE g[i]]
  <2>2. e \in A
    <3>1. g[n] \in A /\ n + 1 \in 1..N
      OBVIOUS
    <3> QED BY <3>1
  <2>3. h \in [0..n + 1 -> A]
    BY <2>2
  <2>4. h[0] = a
    BY <2>1
  <2>5. ASSUME NEW i \in 1..n + 1 PROVE h[i] = F[<<i, h[i - 1]>>]
    <3>1. CASE i = n + 1
      <4>1. h[i] = e /\ h[i - 1] = g[n]
        BY <3>1
      <4> QED BY <3>1, <4>1
    <3>2. CASE i # n + 1
      <4>1. i \in 1..n /\ h[i] = g[i] /\ h[i - 1] = g[i - 1]
        BY <3>2
      <4> QED BY <2>1, <4>1
    <3> QED BY <3>1, <3>2, Zenon
  <2> HIDE DEF h
  <2>6. P(n + 1)
    BY <2>3, <2>4, <2>5
  <2> QED BY <2>6
<1> HIDE DEF P
<1>3. 0..N \subseteq S
  <2> HIDE DEF S
  <2> QED BY <1>1, <1>2, Induction
<1>4. P(N)
  BY <1>3
<1> QED BY <1>4 DEF P, Runs

-----------------------------------------------------------------------------
(* The reader.                                                               *)

\* A small power of two.
LEMMA Powers ==
  ASSUME NEW n \in 0..8
  PROVE  2^n \in Nat \ {0}
<1> DEFINE E(m) == 2^m
<1>1. E(0) = 1 /\ E(1) = 2 /\ E(2) = 4 /\ E(3) = 8 /\ E(4) = 16 /\ E(5) = 32 /\ E(6) = 64 /\ E(7) = 128 /\ E(8) = 256
  OBVIOUS
<1>2. n = 0 \/ n = 1 \/ n = 2 \/ n = 3 \/ n = 4 \/ n = 5 \/ n = 6 \/ n = 7 \/ n = 8
  OBVIOUS
<1> HIDE DEF E
<1>3. E(n) \in Nat \ {0}
  BY <1>1, <1>2
<1> QED BY <1>3 DEF E

\* The loop over fill bytes stops, at the end of the file if not before.
LEMMA SkipFillStops ==
  ASSUME Bytes, NEW p \in Nat
  PROVE  SkipFill(p) \in Nat /\ SkipFill(p) >= p /\ Byte(SkipFill(p)) # 255
         /\ (Byte(p) = 255 => SkipFill(p) > p)
<1> DEFINE e == IF at_eof(p) THEN p ELSE Len(file)
           OK(q) == Byte(q) # 255 /\ \A i \in p..q - 1 : Byte(i) = 255
           T == {q \in p..e : Byte(q) # 255}
<1>1. e \in Nat /\ e >= p /\ Byte(e) = 0
  BY DEF Bytes, at_eof, Byte
<1>2. e \in T
  BY <1>1
<1>3. T \subseteq Nat
  BY <1>1
<1>4. PICK q \in T : \A y \in T : q <= y
  <2> HIDE DEF T
  <2> QED BY <1>2, <1>3, Least, Zenon
<1>5. ASSUME NEW i \in p..q - 1 PROVE Byte(i) = 255
  <2>1. i \in p..e /\ ~ (q <= i)
    BY <1>1, <1>4
  <2> QED BY <1>4, <2>1
<1>6. q \in p..e /\ OK(q)
  BY <1>4, <1>5
<1>7. SkipFill(p) \in p..e /\ OK(SkipFill(p))
  <2>1. SkipFill(p) = CHOOSE x \in p..e : OK(x)
    BY DEF SkipFill
  <2> HIDE DEF OK, e
  <2> QED BY <1>6, <2>1, Zenon
<1>8. SkipFill(p) \in Nat /\ SkipFill(p) >= p
  BY <1>1, <1>7
<1>9. Byte(SkipFill(p)) # 255
  BY <1>7
<1> HIDE DEF e, OK, T
<1>10. Byte(p) = 255 => SkipFill(p) # p
  BY <1>9, Zenon
<1> QED BY <1>8, <1>9, <1>10

\* stbi__get_marker returns a byte and leaves a reader that has gone on.
LEMMA MarkerTyped ==
  ASSUME Bytes, NEW r \in Reader
  PROVE  /\ get_marker(r).m \in Octet /\ get_marker(r).r \in Reader
         /\ get_marker(r).r.pos >= r.pos
         /\ r.marker = MARKER_none => get_marker(r).r.pos > r.pos
<1> DEFINE p == SkipFill(r.pos)
<1>1. r.pos \in Nat
  BY DEF Reader
<1>2. p \in Nat /\ p >= r.pos
  BY <1>1, SkipFillStops
<1>3. Byte(p) \in Octet
  BY <1>2, ByteRange
<1> HIDE DEF p
<1>4. get_marker(r) = IF r.marker # MARKER_none THEN [m |-> r.marker, r |-> [r EXCEPT !.marker = MARKER_none]]
                      ELSE IF p = r.pos THEN [m |-> MARKER_none, r |-> [r EXCEPT !.pos = @ + 1]]
                      ELSE [m |-> Byte(p), r |-> [r EXCEPT !.pos = p + 1]]
  BY DEF get_marker, p
<1>5. CASE r.marker # MARKER_none
  <2>1. get_marker(r) = [m |-> r.marker, r |-> [r EXCEPT !.marker = MARKER_none]]
    BY <1>4, <1>5, Zenon
  <2>2. MARKER_none \in Octet
    BY DEF MARKER_none, Octet
  <2>3. [r EXCEPT !.marker = MARKER_none] \in Reader /\ [r EXCEPT !.marker = MARKER_none].pos = r.pos
    BY <2>2 DEF Reader
  <2>4. r.marker \in Octet
    BY DEF Reader
  <2>5. get_marker(r).m = r.marker /\ get_marker(r).r = [r EXCEPT !.marker = MARKER_none]
    BY <2>1
  <2> QED BY <1>1, <1>5, <2>3, <2>4, <2>5
<1>6. CASE r.marker = MARKER_none /\ p = r.pos
  <2>1. get_marker(r) = [m |-> MARKER_none, r |-> [r EXCEPT !.pos = @ + 1]]
    BY <1>4, <1>6, Zenon
  <2>2. [r EXCEPT !.pos = @ + 1] \in Reader /\ [r EXCEPT !.pos = @ + 1].pos = r.pos + 1
    BY DEF Reader
  <2>3. MARKER_none \in Octet
    BY DEF MARKER_none, Octet
  <2>4. get_marker(r).m = MARKER_none /\ get_marker(r).r = [r EXCEPT !.pos = @ + 1]
    BY <2>1
  <2> QED BY <1>1, <2>2, <2>3, <2>4
<1>7. CASE r.marker = MARKER_none /\ p # r.pos
  <2>1. get_marker(r) = [m |-> Byte(p), r |-> [r EXCEPT !.pos = p + 1]]
    BY <1>4, <1>7, Zenon
  <2>2. [r EXCEPT !.pos = p + 1] \in Reader /\ [r EXCEPT !.pos = p + 1].pos = p + 1
    BY <1>2 DEF Reader
  <2>3. get_marker(r).m = Byte(p) /\ get_marker(r).r = [r EXCEPT !.pos = p + 1]
    BY <2>1
  <2> QED BY <1>1, <1>2, <1>3, <2>2, <2>3
<1> QED BY <1>5, <1>6, <1>7, Zenon

\* The bits of a byte are bits.
LEMMA Bits8Typed ==
  ASSUME NEW b \in Octet
  PROVE  Bits8(b) \in Seq(ZeroOne) /\ Len(Bits8(b)) = 8
<1>1. ASSUME NEW k \in 1..8 PROVE (b \div 2^(8 - k)) % 2 \in ZeroOne
  <2>1. 2^(8 - k) \in Nat \ {0}
    <3>1. 8 - k \in 0..8
      OBVIOUS
    <3> QED BY <3>1, Powers, Zenon
  <2>2. b \div 2^(8 - k) \in Int
    BY <2>1 DEF Octet
  <2> QED BY <2>2 DEF ZeroOne
<1> QED BY <1>1 DEF Bits8

Filling == [full : BOOLEAN, r : Reader]
Onward(r) == {q \in Reader : q.pos >= r.pos}

\* One turn of the loop of stbi__grow_buffer_unsafe keeps the reader in shape and
\* never goes back in the file.
LEMMA GrowByteTyped ==
  ASSUME Bytes, NEW s \in Filling
  PROVE  grow_byte(s) \in Filling /\ grow_byte(s).r \in Onward(s.r)
<1> DEFINE r == s.r
           b == IF r.nomore THEN 0 ELSE Byte(r.pos)
           c == SkipFill(r.pos)
           place == CASE r.nomore -> r.pos [] ~ r.nomore /\ b = 255 -> c + 1 [] OTHER -> r.pos + 1
           more == [r EXCEPT !.pos = place, !.bits = @ \o Bits8(b)]
           stop == [r EXCEPT !.pos = c + 1, !.marker = Byte(c), !.nomore = TRUE]
<1>1. r \in Reader /\ r.pos \in Nat /\ r.bits \in Seq(ZeroOne) /\ r.nomore \in BOOLEAN /\ s.full \in BOOLEAN
  BY DEF Filling, Reader
<1>2. b \in Octet
  <2>1. 0 \in Octet
    BY DEF Octet
  <2> QED BY <1>1, <2>1, ByteRange, Zenon
<1>3. c \in Nat /\ c >= r.pos
  <2> HIDE DEF r
  <2> QED BY <1>1, SkipFillStops, Zenon
<1>4. Byte(c) \in Octet
  <2> HIDE DEF c
  <2> QED BY <1>3, ByteRange, Zenon
<1>5. Bits8(b) \in Seq(ZeroOne)
  <2> HIDE DEF b
  <2> QED BY <1>2, Bits8Typed, Zenon
<1> HIDE DEF b, c
<1>6. place \in Nat /\ place >= r.pos
  <2> HIDE DEF r
  <2> QED BY <1>1, <1>3
<1>7. r.bits \o Bits8(b) \in Seq(ZeroOne)
  <2> HIDE DEF r
  <2> QED BY <1>1, <1>5
<1> HIDE DEF place
<1>8. more \in Reader /\ more.pos = place
  <2> HIDE DEF r
  <2> QED BY <1>1, <1>6, <1>7, Zenon DEF Reader
<1>9. stop \in Reader /\ stop.pos = c + 1
  <2> HIDE DEF r
  <2>1. c + 1 \in Nat
    BY <1>3
  <2> DEFINE byte == Byte(c)
             yes == TRUE
  <2>2. byte \in Octet /\ yes \in BOOLEAN
    BY <1>4, Zenon
  <2> HIDE DEF byte, yes
  <2>3. [r EXCEPT !.pos = c + 1, !.marker = byte, !.nomore = yes] \in Reader
    BY <1>1, <2>1, <2>2, Zenon DEF Reader
  <2>4. [r EXCEPT !.pos = c + 1, !.marker = byte, !.nomore = yes].pos = c + 1
    BY <1>1 DEF Reader
  <2> QED BY <2>3, <2>4, Zenon DEF byte, yes
<1>10. grow_byte(s) = IF s.full THEN s
                      ELSE IF b = 255 /\ Byte(c) # 0 THEN [full |-> TRUE, r |-> stop]
                      ELSE [full |-> Len(more.bits) > 24, r |-> more]
  BY Zenon DEF grow_byte, b, c, place
<1>11. more \in Onward(r) /\ stop \in Onward(r) /\ r \in Onward(r)
  <2> HIDE DEF r, more, stop
  <2> QED BY <1>1, <1>3, <1>6, <1>8, <1>9 DEF Onward
<1>12. (Len(more.bits) > 24) \in BOOLEAN
  OBVIOUS
<1> HIDE DEF more, stop
<1>13. CASE s.full
  BY <1>10, <1>11, <1>13, Zenon
<1>14. CASE ~ s.full /\ b = 255 /\ Byte(c) # 0
  <2>1. grow_byte(s) = [full |-> TRUE, r |-> stop]
    BY <1>10, <1>14, Zenon
  <2> QED BY <1>9, <1>11, <2>1 DEF Filling
<1>15. CASE ~ s.full /\ ~ (b = 255 /\ Byte(c) # 0)
  <2> DEFINE full == Len(more.bits) > 24
  <2>1. grow_byte(s) = [full |-> full, r |-> more]
    BY <1>10, <1>15, Zenon
  <2> HIDE DEF full
  <2>2. full \in BOOLEAN
    BY <1>12 DEF full
  <2> QED BY <1>8, <1>11, <2>1, <2>2 DEF Filling
<1> QED BY <1>13, <1>14, <1>15, Zenon

\* stbi__grow_buffer_unsafe, all of it.
LEMMA GrowTyped ==
  ASSUME Bytes, NEW r \in Reader
  PROVE  grow_buffer(r) \in Onward(r)
<1> DEFINE a == [full |-> FALSE, r |-> r]
           A == {t \in Filling : t.r \in Onward(r)}
           G(t) == grow_byte(t)
           F == [x \in (1..4) \X A |-> G(x[2])]
           E(g) == [i \in 0..4 |-> IF i = 0 THEN a ELSE G(g[i - 1])]
           s == CHOOSE g : g = E(g)
<1>1. a \in A
  <2>1. a \in Filling /\ a.r = r /\ r.pos \in Nat
    BY DEF Filling, Reader
  <2> HIDE DEF a
  <2> QED BY <2>1 DEF Onward
<1>2. ASSUME NEW t \in A PROVE G(t) \in A
  <2>1. t \in Filling /\ t.r \in Onward(r)
    OBVIOUS
  <2>2. G(t) \in Filling /\ G(t).r \in Onward(t.r)
    BY <2>1, GrowByteTyped, Zenon
  <2> HIDE DEF G
  <2>3. G(t).r \in Onward(r)
    BY <2>1, <2>2 DEF Onward, Reader
  <2> QED BY <2>2, <2>3
<1> HIDE DEF a, A, G
<1>3. F \in [(1..4) \X A -> A]
  BY <1>2
<1>4. PICK g \in [0..4 -> A] : g[0] = a /\ \A i \in 1..4 : g[i] = F[<<i, g[i - 1]>>]
  <2> HIDE DEF F
  <2>1. 4 \in Nat
    OBVIOUS
  <2>2. \E g : Runs(g, A, a, 4, F)
    BY <1>1, <1>3, <2>1, Iterate, Zenon
  <2> QED BY <2>2, Zenon DEF Runs
<1>5. ASSUME NEW i \in 1..4 PROVE g[i] = G(g[i - 1])
  <2>1. i - 1 \in 0..4
    OBVIOUS
  <2>2. g[i - 1] \in A
    BY <2>1
  <2>3. g[i] = F[<<i, g[i - 1]>>]
    BY <1>4, Zenon
  <2> QED BY <2>2, <2>3
<1>6. g = E(g)
  BY <1>4, <1>5
<1> HIDE DEF E
<1>7. s = E(s)
  BY <1>6, Zenon
<1> HIDE DEF s
<1>8. s[0] = a /\ s[1] = G(s[0]) /\ s[2] = G(s[1]) /\ s[3] = G(s[2]) /\ s[4] = G(s[3])
  <2> DEFINE e == E(s)
  <2>1. e[0] = a /\ e[1] = G(s[0]) /\ e[2] = G(s[1]) /\ e[3] = G(s[2]) /\ e[4] = G(s[3])
    BY DEF E
  <2> HIDE DEF e
  <2>2. s = e
    BY <1>7, Zenon DEF e
  <2> QED BY <2>1, <2>2, Zenon
<1>9. s[4] \in A
  BY <1>1, <1>2, <1>8, Zenon
<1>10. grow_buffer(r) = s[4].r
  BY Zenon DEF grow_buffer, s, E, a, G
<1> QED BY <1>9, <1>10, Zenon DEF A

\* There are n bits, or no more are to be had.
LEMMA GrownTyped ==
  ASSUME Bytes, NEW r \in Reader, NEW n
  PROVE  Grown(r, n) \in Onward(r)
<1>1. r \in Onward(r)
  BY DEF Onward, Reader
<1> QED BY <1>1, GrowTyped, Zenon DEF Grown

\* Taking bits away leaves bits.
LEMMA DropTyped ==
  ASSUME NEW r \in Reader, NEW n \in Nat
  PROVE  Drop(r, n) \in Onward(r)
<1>1. r.bits \in Seq(ZeroOne) /\ r.pos \in Nat
  BY DEF Reader
<1>2. SubSeq(r.bits, n + 1, Len(r.bits)) \in Seq(ZeroOne)
  BY <1>1
<1> DEFINE d == [r EXCEPT !.bits = SubSeq(r.bits, n + 1, Len(r.bits))]
<1>3. d \in Reader /\ d.pos = r.pos
  BY <1>2 DEF Reader
<1>4. Drop(r, n) = d
  BY DEF Drop
<1> HIDE DEF d
<1> QED BY <1>1, <1>3, <1>4 DEF Onward

\* From one reader to another, and on to a third.
LEMMA OnwardFurther ==
  ASSUME NEW r \in Reader, NEW q \in Onward(r), NEW t \in Onward(q)
  PROVE  t \in Onward(r)
BY DEF Onward, Reader

\* The first bits of code_buffer are a number.
LEMMA TopTyped ==
  ASSUME NEW bits \in Seq(ZeroOne), NEW n \in Nat
  PROVE  Top(bits, n) \in Nat
<1> DEFINE D(i) == IF i <= Len(bits) THEN bits[i] ELSE 0
           F == [x \in (1..n) \X Nat |-> 2 * x[2] + D(x[1])]
           E(g) == [i \in 0..n |-> IF i = 0 THEN 0 ELSE 2 * g[i - 1] + D(i)]
           v == CHOOSE g : g = E(g)
<1>1. ASSUME NEW i \in 1..n PROVE D(i) \in Nat
  <2>1. CASE i <= Len(bits)
    <3>1. i \in 1..Len(bits)
      BY <2>1
    <3>2. bits[i] \in ZeroOne
      BY <3>1, ElementOf, Zenon
    <3> QED BY <2>1, <3>2 DEF ZeroOne
  <2>2. CASE ~ (i <= Len(bits))
    BY <2>2
  <2> QED BY <2>1, <2>2, Zenon
<1> HIDE DEF D
<1>2. F \in [(1..n) \X Nat -> Nat]
  BY <1>1
<1>3. PICK g : Runs(g, Nat, 0, n, F)
  <2> HIDE DEF F
  <2>1. 0 \in Nat
    OBVIOUS
  <2> QED BY <1>2, <2>1, Iterate, Zenon
<1>4. g \in [0..n -> Nat] /\ g[0] = 0 /\ \A i \in 1..n : g[i] = F[<<i, g[i - 1]>>]
  BY <1>3, Zenon DEF Runs
<1>5. ASSUME NEW i \in 1..n PROVE g[i] = 2 * g[i - 1] + D(i)
  <2>1. i - 1 \in 0..n
    OBVIOUS
  <2>2. g[i - 1] \in Nat
    BY <1>4, <2>1
  <2>3. g[i] = F[<<i, g[i - 1]>>]
    BY <1>4, Zenon
  <2> QED BY <2>2, <2>3
<1>6. g = E(g)
  BY <1>4, <1>5
<1> HIDE DEF E
<1>7. v = E(v)
  BY <1>6, Zenon
<1> HIDE DEF v
<1>8. \A i \in 0..n : v[i] = IF i = 0 THEN 0 ELSE 2 * v[i - 1] + D(i)
  <2> DEFINE e == E(v)
  <2>1. \A i \in 0..n : e[i] = IF i = 0 THEN 0 ELSE 2 * v[i - 1] + D(i)
    BY Zenon DEF E
  <2> HIDE DEF e
  <2>2. v = e
    BY <1>7, Zenon DEF e
  <2> QED BY <2>1, <2>2, Zenon
<1> DEFINE S == {i \in 0..n : v[i] \in Nat}
<1>9. 0 \in S
  BY <1>8
<1>10. ASSUME NEW i \in 0..n - 1, i \in S PROVE i + 1 \in S
  <2>1. v[i] \in Nat /\ i + 1 \in 1..n /\ (i + 1) - 1 = i
    BY <1>10
  <2>2. D(i + 1) \in Nat
    BY <1>1, <2>1, Zenon
  <2>3. v[i + 1] = 2 * v[i] + D(i + 1)
    BY <1>8, <2>1
  <2> QED BY <2>1, <2>2, <2>3
<1>11. 0..n \subseteq S
  <2> HIDE DEF S
  <2> QED BY <1>9, <1>10, Induction, Zenon
<1>12. v[n] \in Nat
  BY <1>11
<1>13. Top(bits, n) = v[n]
  BY Zenon DEF Top, v, E, D
<1> QED BY <1>12, <1>13, Zenon

\* The search for the size of a code.
LEMMA SizeOfTyped ==
  ASSUME NEW h, NEW bits, NEW from \in Nat, NEW to \in Nat, from <= to
  PROVE  SizeOf(h, bits, from, to) \in from..to + 1
<1> DEFINE fits == {s \in from..to : bits < h.maxcode[s]}
           OK(s) == \A t \in fits : s <= t
<1>1. fits \subseteq from..to
  OBVIOUS
<1>2. SizeOf(h, bits, from, to) = IF fits = {} THEN to + 1 ELSE CHOOSE s \in fits : OK(s)
  BY Zenon DEF SizeOf
<1> HIDE DEF fits
<1>3. CASE fits = {}
  BY <1>2, <1>3
<1>4. CASE fits # {}
  <2>1. fits \subseteq Nat
    BY <1>1
  <2>2. \E s \in fits : OK(s)
    BY <1>4, <2>1, Least, Zenon
  <2>3. SizeOf(h, bits, from, to) \in fits
    <3> HIDE DEF OK
    <3> QED BY <1>2, <1>4, <2>2, Zenon
  <2>4. SizeOf(h, bits, from, to) \in from..to
    BY <1>1, <2>3, Zenon
  <2> QED BY <2>4
<1> QED BY <1>3, <1>4, Zenon

\* An entry of fast has a size of at most FAST_BITS and a byte for its index.
LEMMA FastTyped ==
  ASSUME NEW h, IsTable(h), NEW c \in Nat
  PROVE  fast(h, c).size \in 0..9 /\ fast(h, c).index \in Octet
<1> DEFINE z == SizeOf(h, c * 2^(16 - FAST_BITS), 1, FAST_BITS)
           x == (c \div 2^(FAST_BITS - z)) + h.delta[z]
<1>1. z \in 1..10
  BY SizeOfTyped DEF FAST_BITS
<1>2. fast(h, c) = CASE ~ h.ok -> [size |-> 0, index |-> 0]
                     [] h.ok /\ z <= FAST_BITS -> [size |-> z, index |-> x % 256]
                     [] OTHER -> [size |-> 0, index |-> 255]
  BY Zenon DEF fast
<1> HIDE DEF z
<1>3. CASE ~ h.ok
  <2>1. fast(h, c) = [size |-> 0, index |-> 0]
    BY <1>2, <1>3
  <2> QED BY <2>1 DEF Octet
<1>4. CASE h.ok /\ z <= FAST_BITS
  <2>1. fast(h, c) = [size |-> z, index |-> x % 256]
    BY <1>2, <1>4
  <2>2. z \in 1..9 /\ FAST_BITS - z \in 0..8
    BY <1>1, <1>4 DEF FAST_BITS
  <2>3. 2^(FAST_BITS - z) \in Nat \ {0}
    BY <2>2, Powers, Zenon
  <2>4. c \div 2^(FAST_BITS - z) \in Int
    BY <2>3
  <2>5. h.delta[z] \in Int
    BY <1>4, <2>2 DEF IsTable
  <2>6. x \in Int
    BY <2>4, <2>5
  <2> HIDE DEF x
  <2>7. x % 256 \in 0..255
    BY <2>6
  <2>8. fast(h, c).size = z /\ fast(h, c).index = x % 256
    BY <2>1
  <2> QED BY <2>2, <2>7, <2>8 DEF Octet
<1>5. CASE h.ok /\ ~ (z <= FAST_BITS)
  <2>1. fast(h, c) = [size |-> 0, index |-> 255]
    BY <1>2, <1>5
  <2> QED BY <2>1 DEF Octet
<1> QED BY <1>3, <1>4, <1>5, Zenon

\* The shortcut for a small coefficient skips at most 15 zeros.
LEMMA FastAcTyped ==
  ASSUME NEW h, IsTable(h), NEW c \in Nat
  PROVE  fast_ac(h, c).run \in 0..15 /\ fast_ac(h, c).length \in Nat
<1> DEFINE f == fast(h, c)
           rs == h.values[f.index + 1]
           magbits == rs % 16
           k == ((c * 2^f.size) % 2^FAST_BITS) \div 2^(FAST_BITS - magbits)
           none == [run |-> 0, value |-> 0, length |-> 0]
           some == [run |-> rs \div 16, value |-> extend(k, magbits), length |-> f.size + magbits]
<1>1. f.size \in 0..9 /\ f.index \in Octet
  BY FastTyped, Zenon
<1>a. fast_ac(h, c) = fast_ac_entry(h, c, f)
  BY Zenon DEF fast_ac
<1> HIDE DEF f
<1>2. fast_ac(h, c) = none \/ fast_ac(h, c) = some
  BY <1>a, Zenon DEF fast_ac_entry
<1> HIDE DEF k
<1>3. rs \in 0..255
  <2>1. f.index + 1 \in 1..256
    BY <1>1 DEF Octet
  <2>2. rs \in Octet
    <3> DEFINE i == f.index + 1
    <3> HIDE DEF i
    <3>1. h.values[i] \in Octet
      BY <2>1, Zenon DEF IsTable, i
    <3> QED BY <3>1, Zenon DEF i
  <2> QED BY <2>2, Zenon DEF Octet
<1> HIDE DEF rs
<1>4. rs \div 16 \in 0..15 /\ magbits \in 0..15
  BY <1>3
<1>5. f.size + magbits \in Nat
  BY <1>1, <1>4
<1> HIDE DEF magbits
<1>6. CASE fast_ac(h, c) = none
  BY <1>6
<1>7. CASE fast_ac(h, c) = some
  <2>1. fast_ac(h, c).run = rs \div 16 /\ fast_ac(h, c).length = f.size + magbits
    BY <1>7
  <2> QED BY <1>4, <1>5, <2>1, Zenon
<1> QED BY <1>2, <1>6, <1>7, Zenon

\* A symbol is a byte, or -1 for none.
LEMMA DecodeTyped ==
  ASSUME NEW r \in Reader, NEW h, IsTable(h), NEW f, f.size \in 0..9, f.index \in Octet
  PROVE  Decode(r, h, f).v \in Octet \cup {-1} /\ Decode(r, h, f).r \in Onward(r)
<1> DEFINE k == IF f.index < 255 THEN f.size ELSE SizeOf(h, Top(r.bits, 16), FAST_BITS + 1, 16)
           c == IF f.index < 255 THEN f.index ELSE Top(r.bits, k) + h.delta[k]
           none == [v |-> -1, r |-> r]
           some == [v |-> h.values[c + 1], r |-> Drop(r, k)]
<1>1. k \in Nat
  <2>1. SizeOf(h, Top(r.bits, 16), FAST_BITS + 1, 16) \in 10..17
    BY SizeOfTyped DEF FAST_BITS
  <2>2. \A z : z \in 10..17 => z \in Nat
    OBVIOUS
  <2>3. f.size \in Nat
    OBVIOUS
  <2> QED BY <2>1, <2>2, <2>3, Zenon
<1>2. Decode(r, h, f) = none \/ (c \in 0..255 /\ Decode(r, h, f) = some)
  BY Zenon DEF Decode
<1> HIDE DEF k, c
<1>3. CASE Decode(r, h, f) = none
  <2>1. Decode(r, h, f).v = -1 /\ Decode(r, h, f).r = r
    BY <1>3
  <2>2. r \in Onward(r)
    BY DEF Onward, Reader
  <2> QED BY <2>1, <2>2, Zenon
<1>4. CASE c \in 0..255 /\ Decode(r, h, f) = some
  <2>1. Decode(r, h, f).v = h.values[c + 1] /\ Decode(r, h, f).r = Drop(r, k)
    BY <1>4
  <2> DEFINE i == c + 1
  <2>2. i \in 1..256
    BY <1>4
  <2> HIDE DEF i
  <2>3. h.values[i] \in Octet
    BY <2>2, Zenon DEF IsTable
  <2>4. Drop(r, k) \in Onward(r)
    BY <1>1, DropTyped, Zenon
  <2> QED BY <2>1, <2>3, <2>4, Zenon DEF i
<1> QED BY <1>2, <1>3, <1>4, Zenon

\* stbi__jpeg_huff_decode.
LEMMA HuffTyped ==
  ASSUME Bytes, NEW r \in Reader, NEW h, IsTable(h)
  PROVE  huff_decode(r, h).v \in Octet \cup {-1} /\ huff_decode(r, h).r \in Onward(r)
<1> DEFINE g == Grown(r, 16)
           c == Top(g.bits, FAST_BITS)
           f == fast(h, c)
<1>1. g \in Onward(r) /\ g \in Reader
  BY GrownTyped, Zenon DEF Onward
<1> HIDE DEF g
<1>2. g.bits \in Seq(ZeroOne)
  BY <1>1 DEF Reader
<1>3. FAST_BITS \in Nat
  BY DEF FAST_BITS
<1>4. c \in Nat
  BY <1>2, <1>3, TopTyped, Zenon
<1> HIDE DEF c
<1>5. f.size \in 0..9 /\ f.index \in Octet
  BY <1>4, FastTyped, Zenon
<1> HIDE DEF f
<1>6. Decode(g, h, f).v \in Octet \cup {-1} /\ Decode(g, h, f).r \in Onward(g)
  BY <1>1, <1>5, DecodeTyped, Zenon
<1>7. huff_decode(r, h) = Decode(g, h, f)
  BY Zenon DEF huff_decode, DecodeNext, g, c, f
<1>8. Decode(g, h, f).r \in Onward(r)
  BY <1>1, <1>6, OnwardFurther, Zenon
<1> QED BY <1>6, <1>7, <1>8, Zenon

\* stbi__jpeg_get_bits and stbi__extend_receive leave a reader.
LEMMA TakeTyped ==
  ASSUME Bytes, NEW r \in Reader, NEW n \in Nat
  PROVE  jpeg_get_bits(r, n).r \in Onward(r) /\ extend_receive(r, n).r \in Onward(r)
         /\ jpeg_get_bits(r, n).v \in Nat
<1> DEFINE g == Grown(r, n)
<1>1. g \in Onward(r) /\ g \in Reader
  BY GrownTyped, Zenon DEF Onward
<1>2. Drop(g, n) \in Onward(r)
  <2> HIDE DEF g
  <2> QED BY <1>1, DropTyped, OnwardFurther, Zenon
<1>3. Top(g.bits, n) \in Nat
  <2> HIDE DEF g
  <2>1. g.bits \in Seq(ZeroOne)
    BY <1>1 DEF Reader
  <2> QED BY <2>1, TopTyped, Zenon
<1> DEFINE t == Top(g.bits, n)
           e == extend(Top(g.bits, n), n)
<1>4. jpeg_get_bits(r, n) = [v |-> 0, r |-> g] \/ jpeg_get_bits(r, n) = [v |-> t, r |-> Drop(g, n)]
  BY Zenon DEF jpeg_get_bits, Take
<1>5. extend_receive(r, n) = [v |-> 0, r |-> g] \/ extend_receive(r, n) = [v |-> e, r |-> Drop(g, n)]
  BY Zenon DEF extend_receive, TakeSigned
<1>6. t \in Nat
  BY <1>3, Zenon
<1> HIDE DEF g, t, e
<1>7. jpeg_get_bits(r, n).r \in Onward(r) /\ jpeg_get_bits(r, n).v \in Nat
  BY <1>1, <1>2, <1>4, <1>6
<1>8. extend_receive(r, n).r \in Onward(r)
  BY <1>1, <1>2, <1>5
<1> QED BY <1>7, <1>8, Zenon

\* An AC symbol skips at most 15 coefficients.
LEMMA AcTyped ==
  ASSUME Bytes, NEW q \in Reader, NEW h, IsTable(h), NEW a, a = AcNext(Grown(q, 16), h), a.ok
  PROVE  a.run \in 0..15 /\ a.r \in Onward(q)
<1> DEFINE r == Grown(q, 16)
           c == Top(r.bits, FAST_BITS)
           f == fast_ac(h, c)
           d == huff_decode(r, h)
           s == d.v % 16
           x == extend_receive(d.r, s)
<1>1. r \in Onward(q) /\ r \in Reader
  BY GrownTyped, Zenon DEF Onward
<1> HIDE DEF r
<1>2. r.bits \in Seq(ZeroOne) /\ Len(r.bits) \in Nat
  BY <1>1 DEF Reader
<1>3. c \in Nat
  <2>1. FAST_BITS \in Nat
    BY DEF FAST_BITS
  <2> QED BY <1>2, <2>1, TopTyped, Zenon
<1> HIDE DEF c
<1>4. f.run \in 0..15 /\ f.length \in Nat
  BY <1>3, FastAcTyped, Zenon
<1>5. d.v \in Octet \cup {-1} /\ d.r \in Onward(r)
  BY <1>1, HuffTyped, Zenon
<1>6. a = AcFrom(r, f, d)
  BY Zenon DEF AcNext, r, c
<1> HIDE DEF f, d
<1>7. d.r \in Reader /\ d.r \in Onward(q)
  BY <1>1, <1>5, OnwardFurther, Zenon DEF Onward
<1>8. s \in Nat
  BY <1>5 DEF Octet
<1> HIDE DEF s
<1>9. x.r \in Onward(q)
  BY <1>7, <1>8, TakeTyped, OnwardFurther, Zenon
<1>10. Drop(r, f.length) \in Onward(q)
  BY <1>1, <1>4, DropTyped, OnwardFurther, Zenon
<1> DEFINE quick == [ok |-> TRUE, end |-> FALSE, run |-> f.run, size |-> 1, value |-> f.value, r |-> Drop(r, f.length)]
           coef == [ok |-> TRUE, end |-> FALSE, run |-> d.v \div 16, size |-> s, value |-> x.v, r |-> x.r]
           zeros == [ok |-> TRUE, end |-> d.v # 240, run |-> d.v \div 16, size |-> 0, value |-> 0, r |-> d.r]
           bad == [ok |-> FALSE]
<1>11. a = CASE f.length > Len(r.bits) -> bad
             [] f.length \in 1..Len(r.bits) -> quick
             [] f.length = 0 -> IF d.v < 0 THEN bad ELSE IF s # 0 THEN coef ELSE zeros
  BY <1>6, Zenon DEF AcFrom, s
<1>12. f.length > Len(r.bits) \/ f.length \in 1..Len(r.bits) \/ f.length = 0
  BY <1>2, <1>4
<1>13. a = bad \/ a = quick \/ (~ (d.v < 0) /\ (a = coef \/ a = zeros))
  <2> HIDE DEF bad, quick, coef, zeros, x
  <2> QED BY <1>2, <1>4, <1>11, <1>12
<1> HIDE DEF x
<1>14. a # bad
  OBVIOUS
<1>15. CASE a = quick
  <2>1. a.run = f.run /\ a.r = Drop(r, f.length)
    BY <1>15
  <2> QED BY <1>4, <1>10, <2>1, Zenon
<1>16. CASE ~ (d.v < 0) /\ (a = coef \/ a = zeros)
  <2>1. a.run = d.v \div 16 /\ (a.r = x.r \/ a.r = d.r)
    BY <1>16
  <2>2. d.v \div 16 \in 0..15
    BY <1>5, <1>16 DEF Octet
  <2> QED BY <1>7, <1>9, <2>1, <2>2, Zenon
<1> QED BY <1>13, <1>14, <1>15, <1>16, Zenon

-----------------------------------------------------------------------------
(* Segments with tables.                                                     *)

\* stbi__build_huffman: a symbol has a number for its code.
LEMMA BuildTyped ==
  ASSUME NEW count \in [1..16 -> Nat]
  PROVE  LET h == build_huffman(count)
         IN /\ h.ok \in BOOLEAN /\ h.total \in Nat /\ h.delta \in [1..16 -> Int]
            /\ DOMAIN h = {"ok", "total", "values", "maxcode", "delta"}
<1> DEFINE A == [k : Nat, code : Nat]
           a == [k |-> 0, code |-> 0]
           G(x, j) == [k |-> x.k + count[j], code |-> 2 * x.code + count[j]]
           F == [x \in (1..16) \X A |-> G(x[2], x[1])]
           E(g) == [j \in 0..16 |-> IF j = 0 THEN a ELSE G(g[j - 1], j)]
           at == CHOOSE g : g = E(g)
<1>1. a \in A
  OBVIOUS
<1>2. ASSUME NEW x \in A, NEW j \in 1..16 PROVE G(x, j) \in A
  <2>1. x.k \in Nat /\ x.code \in Nat /\ count[j] \in Nat
    OBVIOUS
  <2>2. x.k + count[j] \in Nat /\ 2 * x.code + count[j] \in Nat
    BY <2>1
  <2> QED BY <2>2
<1> HIDE DEF a, A, G
<1>3. F \in [(1..16) \X A -> A]
  BY <1>2
<1>4. PICK g : Runs(g, A, a, 16, F)
  <2> HIDE DEF F
  <2>1. 16 \in Nat
    OBVIOUS
  <2> QED BY <1>1, <1>3, <2>1, Iterate, Zenon
<1>5. g \in [0..16 -> A] /\ g[0] = a /\ \A j \in 1..16 : g[j] = F[<<j, g[j - 1]>>]
  BY <1>4, Zenon DEF Runs
<1>6. ASSUME NEW j \in 1..16 PROVE g[j] = G(g[j - 1], j)
  <2>1. j - 1 \in 0..16
    OBVIOUS
  <2>2. g[j - 1] \in A
    BY <1>5, <2>1
  <2>3. g[j] = F[<<j, g[j - 1]>>]
    BY <1>5, Zenon
  <2> QED BY <2>2, <2>3
<1>7. g = E(g)
  BY <1>5, <1>6
<1> HIDE DEF E
<1>8. at = E(at)
  BY <1>7, Zenon
<1> HIDE DEF at
<1>9. \A j \in 0..16 : at[j] = IF j = 0 THEN a ELSE G(at[j - 1], j)
  <2> DEFINE e == E(at)
  <2>1. \A j \in 0..16 : e[j] = IF j = 0 THEN a ELSE G(at[j - 1], j)
    BY Zenon DEF E
  <2> HIDE DEF e
  <2>2. at = e
    BY <1>8, Zenon DEF e
  <2> QED BY <2>1, <2>2, Zenon
<1> DEFINE S == {j \in 0..16 : at[j] \in A}
<1>10. 0 \in S
  BY <1>1, <1>9
<1>11. ASSUME NEW j \in 0..16 - 1, j \in S PROVE j + 1 \in S
  <2>1. at[j] \in A /\ j + 1 \in 1..16 /\ j + 1 \in 0..16 /\ (j + 1) - 1 = j /\ j + 1 # 0
    BY <1>11
  <2>2. at[j + 1] = G(at[j], j + 1)
    BY <1>9, <2>1, Zenon
  <2> QED BY <1>2, <2>1, <2>2, Zenon
<1>12. \A j \in 0..16 : at[j].k \in Nat /\ at[j].code \in Nat
  <2>1. 16 \in Nat
    OBVIOUS
  <2>2. 0..16 \subseteq S
    <3> HIDE DEF S
    <3> QED BY <1>10, <1>11, <2>1, Induction, Zenon
  <2> QED BY <2>2 DEF A
<1> DEFINE ok == \A j \in 1..16 : count[j] = 0 \/ at[j].code - 1 < 2^j
           values == <<>>
           maxcode == [j \in 1..16 |-> at[j].code * 2^(16 - j)]
           delta == [j \in 1..16 |-> at[j - 1].k - 2 * at[j - 1].code]
<1>13. build_huffman(count) = [ok |-> ok, total |-> at[16].k, values |-> values, maxcode |-> maxcode, delta |-> delta]
  BY Zenon DEF build_huffman, at, E, G, a
<1>14. delta \in [1..16 -> Int]
  <2>1. ASSUME NEW j \in 1..16 PROVE at[j - 1].k - 2 * at[j - 1].code \in Int
    <3>1. j - 1 \in 0..16
      OBVIOUS
    <3> QED BY <1>12, <3>1
  <2> QED BY <2>1
<1>15. ok \in BOOLEAN
  BY Zenon
<1>16. at[16].k \in Nat
  BY <1>12
<1> HIDE DEF ok, values, maxcode, delta
<1> QED BY <1>13, <1>14, <1>15, <1>16

\* A word is a number.
LEMMA WordRange ==
  ASSUME Bytes, NEW p \in Nat
  PROVE  Word(p) \in Nat
<1>1. p + 1 \in Nat
  OBVIOUS
<1>2. Byte(p) \in Octet /\ Byte(p + 1) \in Octet
  BY <1>1, ByteRange, Zenon
<1>3. \A a, b \in Octet : a * 256 + b \in Nat
  BY DEF Octet
<1> QED BY <1>2, <1>3, Zenon DEF Word

\* The start of a segment.
LEMMA BegunReading ==
  ASSUME Bytes, NEW p \in Nat, IsJpg(jpg)
  PROVE  Reading(Begun(p))
<1> DEFINE left == Word(p) - 2
           pos == p + 2
<1>1. left \in Int /\ pos \in Nat
  <2>1. Word(p) \in Nat
    BY WordRange, Zenon
  <2> QED BY <2>1
<1>2. Begun(p) = [ok |-> TRUE, jpg |-> jpg, pos |-> pos, left |-> left]
  BY Zenon DEF Begun
<1> HIDE DEF left, pos
<1>3. Begun(p).ok = TRUE /\ Begun(p).jpg = jpg /\ Begun(p).pos = pos /\ Begun(p).left = left
      /\ DOMAIN Begun(p) = {"ok", "jpg", "pos", "left"}
  BY <1>2
<1>4. SameFrame(jpg)
  BY Zenon DEF SameFrame
<1> QED BY <1>1, <1>3, <1>4, Zenon DEF Reading

\* A failure is recorded.
LEMMA FailReading ==
  ASSUME NEW s, Reading(s)
  PROVE  Reading([s EXCEPT !.ok = FALSE])
<1> DEFINE no == FALSE
           t == [s EXCEPT !.ok = no]
<1>1. no \in BOOLEAN
  BY Zenon
<1> HIDE DEF no
<1>2. DOMAIN t = DOMAIN s /\ t.ok = no /\ t.jpg = s.jpg /\ t.pos = s.pos /\ t.left = s.left
  BY DEF Reading
<1> HIDE DEF t
<1>3. Reading(t)
  BY <1>1, <1>2, Zenon DEF Reading
<1> QED BY <1>3, Zenon DEF t, no

\* A quantisation table is none of the frame's business.
LEMMA DqtReading ==
  ASSUME Bytes, NEW s, Reading(s)
  PROVE  Reading(dqt_table(s))
<1> DEFINE wide == Byte(s.pos) \div 16
           t == Byte(s.pos) % 16
           Entry(i) == IF wide = 1 THEN Word(s.pos + 1 + 2 * i) ELSE Byte(s.pos + 1 + i)
           size == IF wide = 1 THEN 129 ELSE 65
           table == [n \in 0..63 |-> Entry(zigzag[n])]
           next == [s EXCEPT !.jpg.dequant[t] = table, !.pos = @ + size, !.left = @ - size]
           pos == s.pos + size
           left == s.left - size
<1>1. dqt_table(s) = IF Over(s) THEN s
                     ELSE IF wide > 1 \/ t > 3 THEN [s EXCEPT !.ok = FALSE] ELSE next
  BY Zenon DEF dqt_table
<1>2. pos \in Nat /\ left \in Int
  BY DEF Reading
<1> HIDE DEF table, size, t
<1>3. /\ DOMAIN next = DOMAIN s /\ next.ok = s.ok /\ next.pos = pos /\ next.left = left
      /\ next.jpg = [s.jpg EXCEPT !.dequant[t] = table]
  BY DEF Reading
<1> HIDE DEF next, pos, left
<1> DEFINE j == [s.jpg EXCEPT !.dequant[t] = table]
<1>4. /\ DOMAIN j = DOMAIN s.jpg /\ j.img_n = s.jpg.img_n /\ j.x = s.jpg.x /\ j.y = s.jpg.y
      /\ j.progressive = s.jpg.progressive /\ j.comp = s.jpg.comp /\ j.hmax = s.jpg.hmax /\ j.vmax = s.jpg.vmax
      /\ j.huff_dc = s.jpg.huff_dc /\ j.huff_ac = s.jpg.huff_ac /\ DOMAIN j.dequant = DOMAIN s.jpg.dequant
  BY DEF Reading, IsJpg, JpgFields
<1> HIDE DEF j
<1>5. IsJpg(j) /\ SameFrame(j)
  BY <1>4, Zenon DEF Reading, IsJpg, SameFrame, TablesOk
<1>6. Reading(next)
  BY <1>2, <1>3, <1>5, Zenon DEF Reading, j
<1> HIDE DEF wide
<1> QED BY <1>1, <1>6, FailReading, Zenon

\* A table of Huffman codes is one.
LEMMA DhtReading ==
  ASSUME Bytes, NEW s, Reading(s)
  PROVE  Reading(dht_table(s))
<1> DEFINE tc == Byte(s.pos) \div 16
           th == Byte(s.pos) % 16
           count == [i \in 1..16 |-> Byte(s.pos + i)]
           h == build_huffman(count)
           values == [i \in 1..256 |-> IF i <= h.total THEN Byte(s.pos + 16 + i) ELSE 0]
           table == [h EXCEPT !.values = values]
           size == 17 + h.total
           next == [s EXCEPT !.jpg.huff_dc[th] = IF tc = 0 THEN table ELSE @,
                             !.jpg.huff_ac[th] = IF tc = 1 THEN table ELSE @, !.pos = @ + size, !.left = @ - size]
           pos == s.pos + size
           left == s.left - size
<1>1. dht_table(s) = IF Over(s) THEN s
                     ELSE IF tc > 1 \/ th > 3 \/ h.total > 256 \/ ~ h.ok THEN [s EXCEPT !.ok = FALSE] ELSE next
  BY Zenon DEF dht_table
<1>2. s.pos \in Nat /\ Byte(s.pos) \in Octet
  BY ByteRange, Zenon DEF Reading
<1>3. count \in [1..16 -> Nat]
  <2>1. ASSUME NEW i \in 1..16 PROVE Byte(s.pos + i) \in Nat
    <3>1. s.pos + i \in Nat
      BY <1>2
    <3>2. Byte(s.pos + i) \in Octet
      BY <3>1, ByteRange, Zenon
    <3> QED BY <3>2 DEF Octet
  <2> QED BY <2>1
<1> HIDE DEF count
<1>4. /\ h.ok \in BOOLEAN /\ h.total \in Nat /\ h.delta \in [1..16 -> Int]
      /\ DOMAIN h = {"ok", "total", "values", "maxcode", "delta"}
  BY <1>3, BuildTyped, Zenon
<1> HIDE DEF h
<1>5. values \in [1..256 -> Octet]
  <2>1. ASSUME NEW i \in 1..256 PROVE Byte(s.pos + 16 + i) \in Octet /\ 0 \in Octet
    <3>1. s.pos + 16 + i \in Nat
      BY <1>2
    <3>2. 0 \in Octet
      BY DEF Octet
    <3> QED BY <3>1, <3>2, ByteRange, Zenon
  <2> QED BY <2>1
<1> HIDE DEF values
<1>6. IsTable(table)
  <2>1. table.ok = h.ok /\ table.values = values /\ table.delta = h.delta
    BY <1>4
  <2> HIDE DEF table
  <2> QED BY <1>4, <1>5, <2>1, Zenon DEF IsTable
<1>7. pos \in Nat /\ left \in Int
  BY <1>4 DEF Reading
<1>8. th \in Nat
  BY <1>2 DEF Octet
<1> HIDE DEF table, size, th, tc
<1> DEFINE dc == [s.jpg.huff_dc EXCEPT ![th] = IF tc = 0 THEN table ELSE @]
           ac == [s.jpg.huff_ac EXCEPT ![th] = IF tc = 1 THEN table ELSE @]
           j == [s.jpg EXCEPT !.huff_dc = dc, !.huff_ac = ac]
<1>9. \A t \in 0..3 : IsTable(dc[t]) /\ IsTable(ac[t])
  BY <1>6 DEF Reading, IsJpg, TablesOk
<1>10. DOMAIN dc = 0..3 /\ DOMAIN ac = 0..3
  BY DEF Reading, IsJpg, TablesOk
<1>11. /\ DOMAIN next = DOMAIN s /\ next.ok = s.ok /\ next.pos = pos /\ next.left = left
       /\ next.jpg = j
  BY DEF Reading, IsJpg, JpgFields
<1> HIDE DEF next, pos, left, dc, ac
<1>12. /\ DOMAIN j = DOMAIN s.jpg /\ j.img_n = s.jpg.img_n /\ j.x = s.jpg.x /\ j.y = s.jpg.y
       /\ j.progressive = s.jpg.progressive /\ j.comp = s.jpg.comp /\ j.hmax = s.jpg.hmax /\ j.vmax = s.jpg.vmax
       /\ j.huff_dc = dc /\ j.huff_ac = ac /\ j.dequant = s.jpg.dequant
  BY DEF Reading, IsJpg, JpgFields
<1> HIDE DEF j
<1>13. IsJpg(j) /\ SameFrame(j)
  BY <1>9, <1>10, <1>12, Zenon DEF Reading, IsJpg, SameFrame, TablesOk
<1>14. Reading(next)
  BY <1>7, <1>11, <1>13, Zenon DEF Reading
<1> QED BY <1>1, <1>14, FailReading, Zenon

\* What a segment leaves: the place after it, and jpg with new tables.
Parsed(s) == s.ok \in BOOLEAN /\ (s.ok => s.pos \in Nat /\ IsJpg(s.jpg) /\ SameFrame(s.jpg))

\* The outcome of a segment of tables.
LEMMA ReadParsed ==
  ASSUME NEW s, Reading(s)
  PROVE  Parsed(Read(s))
<1> DEFINE ok == s.ok /\ s.left = 0
<1>1. ok \in BOOLEAN
  BY Zenon DEF Reading
<1>2. Read(s) = [ok |-> ok, jpg |-> s.jpg, pos |-> s.pos]
  BY Zenon DEF Read
<1> HIDE DEF ok
<1>3. Read(s).ok = ok /\ Read(s).jpg = s.jpg /\ Read(s).pos = s.pos
  BY <1>2
<1> QED BY <1>1, <1>3, Zenon DEF Reading, Parsed

\* The loop of DQT.
LEMMA DqtParsed ==
  ASSUME Bytes, NEW p \in Nat, IsJpg(jpg)
  PROVE  Parsed(DQT(p))
<1> DEFINE n == (Word(p) \div 65) + 1
           a == Begun(p)
           G(x) == dqt_table(x)
           E(m, g) == [i \in 0..m |-> IF i = 0 THEN a ELSE G(g[i - 1])]
           s == CHOOSE g : g = E(n, g)
           R == {m \in 0..n : \E g : g = E(m, g)}
<1>1. n \in Nat
  <2>1. Word(p) \in Nat
    BY WordRange, Zenon
  <2> QED BY <2>1
<1> DEFINE c == CHOOSE i \in 0..n : i = n \/ Over(s[i])
<1>2. DQT(p) = Read(s[c])
  BY Zenon DEF DQT
<1>3. Reading(a)
  BY BegunReading, Zenon
<1>4. \A x : Reading(x) => Reading(G(x))
  BY DqtReading, Zenon
<1> HIDE DEF n, a, G
<1>5. 0 \in R
  <2> DEFINE g == [i \in 0..0 |-> a]
  <2>1. g = E(0, g)
    OBVIOUS
  <2> HIDE DEF g
  <2> QED BY <1>1, <2>1
<1>6. ASSUME NEW m \in 0..n - 1, m \in R PROVE m + 1 \in R
  <2>1. PICK g : g = E(m, g)
    BY <1>6, Zenon
  <2> DEFINE h == [i \in 0..m + 1 |-> IF i = 0 THEN a ELSE G(g[i - 1])]
  <2>2. ASSUME NEW i \in 0..m PROVE h[i] = g[i]
    <3> DEFINE e == E(m, g)
    <3>1. e[i] = IF i = 0 THEN a ELSE G(g[i - 1])
      BY Zenon
    <3> HIDE DEF e
    <3>2. g[i] = e[i]
      BY <2>1, Zenon DEF e
    <3> QED BY <1>1, <3>1, <3>2
  <2>3. ASSUME NEW i \in 0..m + 1, i # 0 PROVE h[i - 1] = g[i - 1]
    <3>1. i - 1 \in 0..m
      BY <1>1, <2>3
    <3> QED BY <2>2, <3>1, Zenon
  <2>4. h = E(m + 1, h)
    <3> DEFINE k == h
    <3> HIDE DEF k
    <3>1. ASSUME NEW i \in 0..m + 1 PROVE (IF i = 0 THEN a ELSE G(g[i - 1])) = (IF i = 0 THEN a ELSE G(k[i - 1]))
      BY <2>3, Zenon DEF k
    <3>2. E(m + 1, k) = h
      BY <3>1, Zenon
    <3> QED BY <3>2, Zenon DEF k
  <2> HIDE DEF h
  <2>5. m + 1 \in 0..n
    BY <1>1
  <2> QED BY <2>4, <2>5, Zenon
<1>7. n \in R
  <2> HIDE DEF R
  <2>1. 0..n \subseteq R
    BY <1>1, <1>5, <1>6, Induction, Zenon
  <2> QED BY <1>1, <2>1
<1>8. s = E(n, s)
  <2> HIDE DEF E
  <2> QED BY <1>7, Zenon
<1> HIDE DEF s
<1>9. \A i \in 0..n : s[i] = IF i = 0 THEN a ELSE G(s[i - 1])
  <2> DEFINE e == E(n, s)
  <2>1. \A i \in 0..n : e[i] = IF i = 0 THEN a ELSE G(s[i - 1])
    BY Zenon
  <2> HIDE DEF e
  <2>2. s = e
    BY <1>8, Zenon DEF e
  <2> QED BY <2>1, <2>2, Zenon
<1> DEFINE S == {i \in 0..n : Reading(s[i])}
<1>10. 0 \in S
  <2>1. 0 \in 0..n
    BY <1>1
  <2> QED BY <1>3, <1>9, <2>1, Zenon
<1>11. ASSUME NEW i \in 0..n - 1, i \in S PROVE i + 1 \in S
  <2>1. i + 1 \in 0..n /\ (i + 1) - 1 = i /\ i + 1 # 0
    BY <1>1
  <2>2. s[i + 1] = G(s[i])
    BY <1>9, <2>1, Zenon
  <2> QED BY <1>4, <1>11, <2>1, <2>2, Zenon
<1>12. Reading(s[c])
  <2>1. 0..n \subseteq S
    <3> HIDE DEF S
    <3> QED BY <1>1, <1>10, <1>11, Induction, Zenon
  <2>2. n \in 0..n
    BY <1>1
  <2>3. c \in 0..n
    BY <2>2, Zenon
  <2> QED BY <2>1, <2>3, Zenon
<1> HIDE DEF c
<1> QED BY <1>2, <1>12, ReadParsed, Zenon

\* The loop of DHT.
LEMMA DhtParsed ==
  ASSUME Bytes, NEW p \in Nat, IsJpg(jpg)
  PROVE  Parsed(DHT(p))
<1> DEFINE n == (Word(p) \div 17) + 1
           a == Begun(p)
           G(x) == dht_table(x)
           E(m, g) == [i \in 0..m |-> IF i = 0 THEN a ELSE G(g[i - 1])]
           s == CHOOSE g : g = E(n, g)
           R == {m \in 0..n : \E g : g = E(m, g)}
<1>1. n \in Nat
  <2>1. Word(p) \in Nat
    BY WordRange, Zenon
  <2> QED BY <2>1
<1> DEFINE c == CHOOSE i \in 0..n : i = n \/ Over(s[i])
<1>2. DHT(p) = Read(s[c])
  BY Zenon DEF DHT
<1>3. Reading(a)
  BY BegunReading, Zenon
<1>4. \A x : Reading(x) => Reading(G(x))
  BY DhtReading, Zenon
<1> HIDE DEF n, a, G
<1>5. 0 \in R
  <2> DEFINE g == [i \in 0..0 |-> a]
  <2>1. g = E(0, g)
    OBVIOUS
  <2> HIDE DEF g
  <2> QED BY <1>1, <2>1
<1>6. ASSUME NEW m \in 0..n - 1, m \in R PROVE m + 1 \in R
  <2>1. PICK g : g = E(m, g)
    BY <1>6, Zenon
  <2> DEFINE h == [i \in 0..m + 1 |-> IF i = 0 THEN a ELSE G(g[i - 1])]
  <2>2. ASSUME NEW i \in 0..m PROVE h[i] = g[i]
    <3> DEFINE e == E(m, g)
    <3>1. e[i] = IF i = 0 THEN a ELSE G(g[i - 1])
      BY Zenon
    <3> HIDE DEF e
    <3>2. g[i] = e[i]
      BY <2>1, Zenon DEF e
    <3> QED BY <1>1, <3>1, <3>2
  <2>3. ASSUME NEW i \in 0..m + 1, i # 0 PROVE h[i - 1] = g[i - 1]
    <3>1. i - 1 \in 0..m
      BY <1>1, <2>3
    <3> QED BY <2>2, <3>1, Zenon
  <2>4. h = E(m + 1, h)
    <3> DEFINE k == h
    <3> HIDE DEF k
    <3>1. ASSUME NEW i \in 0..m + 1 PROVE (IF i = 0 THEN a ELSE G(g[i - 1])) = (IF i = 0 THEN a ELSE G(k[i - 1]))
      BY <2>3, Zenon DEF k
    <3>2. E(m + 1, k) = h
      BY <3>1, Zenon
    <3> QED BY <3>2, Zenon DEF k
  <2> HIDE DEF h
  <2>5. m + 1 \in 0..n
    BY <1>1
  <2> QED BY <2>4, <2>5, Zenon
<1>7. n \in R
  <2> HIDE DEF R
  <2>1. 0..n \subseteq R
    BY <1>1, <1>5, <1>6, Induction, Zenon
  <2> QED BY <1>1, <2>1
<1>8. s = E(n, s)
  <2> HIDE DEF E
  <2> QED BY <1>7, Zenon
<1> HIDE DEF s
<1>9. \A i \in 0..n : s[i] = IF i = 0 THEN a ELSE G(s[i - 1])
  <2> DEFINE e == E(n, s)
  <2>1. \A i \in 0..n : e[i] = IF i = 0 THEN a ELSE G(s[i - 1])
    BY Zenon
  <2> HIDE DEF e
  <2>2. s = e
    BY <1>8, Zenon DEF e
  <2> QED BY <2>1, <2>2, Zenon
<1> DEFINE S == {i \in 0..n : Reading(s[i])}
<1>10. 0 \in S
  <2>1. 0 \in 0..n
    BY <1>1
  <2> QED BY <1>3, <1>9, <2>1, Zenon
<1>11. ASSUME NEW i \in 0..n - 1, i \in S PROVE i + 1 \in S
  <2>1. i + 1 \in 0..n /\ (i + 1) - 1 = i /\ i + 1 # 0
    BY <1>1
  <2>2. s[i + 1] = G(s[i])
    BY <1>9, <2>1, Zenon
  <2> QED BY <1>4, <1>11, <2>1, <2>2, Zenon
<1>12. Reading(s[c])
  <2>1. 0..n \subseteq S
    <3> HIDE DEF S
    <3> QED BY <1>1, <1>10, <1>11, Induction, Zenon
  <2>2. n \in 0..n
    BY <1>1
  <2>3. c \in 0..n
    BY <2>2, Zenon
  <2> QED BY <2>1, <2>3, Zenon
<1> HIDE DEF c
<1> QED BY <1>2, <1>12, ReadParsed, Zenon

\* stbi__process_marker moves on in the file and leaves the frame alone, whatever
\* the segment holds.
LEMMA SegmentParsed ==
  ASSUME Bytes, NEW m, NEW p \in Nat, IsJpg(jpg)
  PROVE  Parsed(process_marker(m, p))
<1> DEFINE L == Word(p)
           Tag(bytes) == \A i \in DOMAIN bytes : Byte(p + 1 + i) = bytes[i]
           jfif == jpg.jfif \/ (m = 224 /\ L >= 7 /\ Tag(<<74, 70, 73, 70, 0>>))
           app14 == IF m = 238 /\ L >= 14 /\ Tag(<<65, 100, 111, 98, 101, 0>>) THEN Byte(p + 13) ELSE jpg.app14
           app == [jpg EXCEPT !.jfif = jfif, !.app14 = app14]
           every == Word(p + 2)
           dri == [jpg EXCEPT !.restart_interval = every]
           s == process_marker(m, p)
<1>1. s = CASE m = 221 -> [ok |-> L = 4, pos |-> p + 4, jpg |-> dri]
            [] m = 219 -> DQT(p)
            [] m = 196 -> DHT(p)
            [] m \in 224..239 \cup {254} -> [ok |-> L >= 2, pos |-> p + L, jpg |-> app]
            [] OTHER -> Bad
  BY Zenon DEF process_marker
<1>2. L \in Nat
  BY WordRange, Zenon
<1> HIDE DEF s, jfif, app14, every, L
<1>3. IsJpg(app) /\ SameFrame(app)
  <2>1. /\ DOMAIN app = DOMAIN jpg /\ app.img_n = jpg.img_n /\ app.x = jpg.x /\ app.y = jpg.y
        /\ app.progressive = jpg.progressive /\ app.comp = jpg.comp /\ app.hmax = jpg.hmax /\ app.vmax = jpg.vmax
        /\ app.huff_dc = jpg.huff_dc /\ app.huff_ac = jpg.huff_ac /\ app.dequant = jpg.dequant
    BY DEF IsJpg, JpgFields
  <2> HIDE DEF app
  <2> QED BY <2>1, Zenon DEF IsJpg, SameFrame, TablesOk
<1>4. IsJpg(dri) /\ SameFrame(dri)
  <2>1. /\ DOMAIN dri = DOMAIN jpg /\ dri.img_n = jpg.img_n /\ dri.x = jpg.x /\ dri.y = jpg.y
        /\ dri.progressive = jpg.progressive /\ dri.comp = jpg.comp /\ dri.hmax = jpg.hmax /\ dri.vmax = jpg.vmax
        /\ dri.huff_dc = jpg.huff_dc /\ dri.huff_ac = jpg.huff_ac /\ dri.dequant = jpg.dequant
    BY DEF IsJpg, JpgFields
  <2> HIDE DEF dri
  <2> QED BY <2>1, Zenon DEF IsJpg, SameFrame, TablesOk
<1> HIDE DEF app, dri
<1>5. CASE m = 221
  <2> DEFINE ok == L = 4
             pos == p + 4
  <2>1. ok \in BOOLEAN /\ pos \in Nat
    OBVIOUS
  <2>2. s = [ok |-> ok, pos |-> pos, jpg |-> dri]
    BY <1>1, <1>5
  <2> HIDE DEF ok, pos
  <2>3. s.ok = ok /\ s.pos = pos /\ s.jpg = dri
    BY <2>2
  <2> QED BY <1>4, <2>1, <2>3, Zenon DEF Parsed, s
<1>6. CASE m = 219
  <2>1. s = DQT(p)
    BY <1>1, <1>6
  <2> QED BY <2>1, DqtParsed, Zenon DEF s
<1>7. CASE m = 196
  <2>1. s = DHT(p)
    BY <1>1, <1>7
  <2> QED BY <2>1, DhtParsed, Zenon DEF s
<1>8. CASE m \in 224..239 \cup {254}
  <2> DEFINE ok == L >= 2
             pos == p + L
  <2>1. ok \in BOOLEAN /\ pos \in Nat
    BY <1>2
  <2>2. s = [ok |-> ok, pos |-> pos, jpg |-> app]
    <3> HIDE DEF ok, pos
    <3>1. m # 221 /\ m # 219 /\ m # 196
      BY <1>8
    <3>2. s = IF m \in 224..239 \cup {254} THEN [ok |-> L >= 2, pos |-> p + L, jpg |-> app] ELSE Bad
      BY <1>1, <3>1
    <3> QED BY <1>8, <3>2, Zenon DEF ok, pos
  <2> HIDE DEF ok, pos
  <2>3. s.ok = ok /\ s.pos = pos /\ s.jpg = app
    BY <2>2
  <2> QED BY <1>3, <2>1, <2>3, Zenon DEF Parsed, s
<1>9. CASE m # 221 /\ m # 219 /\ m # 196 /\ m \notin 224..239 \cup {254}
  <2>1. s = Bad
    BY <1>1, <1>9
  <2>2. s.ok = FALSE
    BY <2>1 DEF Bad
  <2> QED BY <2>2, Zenon DEF Parsed, s
<1> QED BY <1>5, <1>6, <1>7, <1>8, <1>9, Zenon

-----------------------------------------------------------------------------
(* The steps of the decoder that read the file.                              *)

\* The next marker leaves a reader.
LEMMA NextMarkerTyped ==
  ASSUME Bytes, rd \in Reader, NEW p \in Nat, NextMarker(p)
  PROVE  rd' \in Reader
<1> DEFINE r == [rd EXCEPT !.pos = p]
<1>1. r \in Reader
  BY DEF Reader
<1>2. rd' = get_marker(r).r
  BY Zenon DEF NextMarker
<1> HIDE DEF r
<1> QED BY <1>1, <1>2, MarkerTyped, Zenon

\* The first markers.
LEMMA LoadSound ==
  ASSUME Bytes, Sound, jpeg_load
  PROVE  Sound' /\ file' = file /\ lpc' # "idle"
<1>1. rd \in Reader /\ IsJpg(jpg)
  BY Zenon DEF Sound
<1>2. /\ lpc' \in {"test", "header", "padding", "ok", "fail", "outofmem"} /\ file' = file /\ jpg' = jpg
      /\ rd' = rd \/ rd' = get_marker(get_marker(rd).r).r
  BY Zenon DEF jpeg_load
<1>3. get_marker(get_marker(rd).r).r \in Reader
  BY <1>1, MarkerTyped, Zenon
<1> QED BY <1>1, <1>2, <1>3, HeaderSound, Zenon

\* Segments and padding before the frame.
LEMMA SegmentSound ==
  ASSUME Bytes, Sound, header_segment \/ padding
  PROVE  Sound' /\ file' = file /\ lpc' # "idle"
<1>1. rd \in Reader /\ IsJpg(jpg)
  BY Zenon DEF Sound
<1>2. rd.pos \in Nat
  BY <1>1 DEF Reader
<1> DEFINE s == process_marker(mark, rd.pos)
           after == {"test", "header", "padding", "ok", "fail", "outofmem"}
<1>3. CASE header_segment
  <2>1. jpeg_fail \/ (s.ok /\ jpg' = s.jpg /\ NextMarker(s.pos) /\ lpc' \in after /\ file' = file)
    BY <1>3, Zenon DEF header_segment
  <2>2. Parsed(s)
    BY <1>1, <1>2, SegmentParsed, Zenon
  <2> HIDE DEF s
  <2>3. s.ok => s.pos \in Nat /\ IsJpg(s.jpg)
    BY <2>2, Zenon DEF Parsed
  <2> QED BY <1>1, <2>1, <2>3, FailSound, NextMarkerTyped, HeaderSound, Zenon
<1>4. CASE padding
  <2>1. jpeg_fail \/ (jpg' = jpg /\ NextMarker(rd.pos) /\ lpc' \in after /\ file' = file)
    BY <1>4, Zenon DEF padding
  <2> QED BY <1>1, <1>2, <2>1, FailSound, NextMarkerTyped, HeaderSound, Zenon
<1> QED BY <1>3, <1>4, Zenon

\* Segments between the scans, and the end of the image.
LEMMA BetweenSound ==
  ASSUME Bytes, Sound, line_count \/ image_segment \/ end_of_image
  PROVE  Sound' /\ file' = file /\ lpc' # "idle"
<1>1. lpc = "image"
  BY Zenon DEF line_count, image_segment, end_of_image
<1>2. rd \in Reader /\ IsJpg(jpg) /\ Framed
  BY <1>1, Zenon DEF Sound
<1>3. rd.pos \in Nat
  BY <1>2 DEF Reader
<1>4. SameFrame(jpg)
  BY Zenon DEF SameFrame
<1> DEFINE s == process_marker(mark, rd.pos)
           after == {"image", "finish", "output"}
<1>5. CASE line_count
  <2>1. jpeg_fail \/ (NextMarker(rd.pos + 4) /\ lpc' = lpc /\ file' = file /\ jpg' = jpg /\ planes' = planes)
    BY <1>5, Zenon DEF line_count, lvars
  <2>2. rd.pos + 4 \in Nat
    BY <1>3
  <2>3. lpc \in after
    BY <1>1, Zenon
  <2> QED BY <1>2, <1>4, <2>1, <2>2, <2>3, FailSound, NextMarkerTyped, ImageSound, Zenon
<1>6. CASE image_segment
  <2>1. /\ lpc' \in after /\ file' = file /\ planes' = planes
        /\ (rd' = rd /\ jpg' = jpg) \/ (s.ok /\ jpg' = s.jpg /\ NextMarker(s.pos))
    BY <1>1, <1>6, Zenon DEF image_segment
  <2>2. Parsed(s)
    BY <1>2, <1>3, SegmentParsed, Zenon
  <2> HIDE DEF s
  <2>3. s.ok => s.pos \in Nat /\ IsJpg(s.jpg) /\ SameFrame(s.jpg)
    BY <2>2, Zenon DEF Parsed
  <2>4. IsJpg(jpg') /\ SameFrame(jpg') /\ rd' \in Reader
    BY <1>2, <1>4, <2>1, <2>3, NextMarkerTyped, Zenon
  <2> QED BY <1>2, <2>1, <2>4, ImageSound, Zenon
<1>7. CASE end_of_image
  <2>1. lpc' \in after /\ file' = file /\ planes' = planes /\ jpg' = jpg /\ rd' = rd
    BY <1>7, Zenon DEF end_of_image, jvars
  <2> QED BY <1>2, <1>4, <2>1, ImageSound, Zenon
<1> QED BY <1>5, <1>6, <1>7, Zenon

\* The frame: its planes have room for every block of it.
LEMMA FrameSound ==
  ASSUME Bytes, Sound, frame_header
  PROVE  Sound' /\ file' = file /\ lpc' # "idle"
<1> DEFINE p == rd.pos
           f == Frame(p)
           kinds == IF f.progressive THEN {"data", "coeff"} ELSE {"data"}
           Earlier(i, b) == (kinds \X (1..i - 1)) \cup (IF b = "coeff" THEN {<<"data", i>>} ELSE {})
           blank == [n \in 1..f.img_n |-> [at \in (0..PlaneW(f, n) - 1) \X (0..PlaneH(f, n) - 1) |-> <<>>]]
<1>1. rd \in Reader /\ IsJpg(jpg)
  BY Zenon DEF Sound
<1>2. p \in Nat
  BY <1>1 DEF Reader
<1>3. \/ jpeg_fail \/ \E i \in 1..f.img_n, b \in kinds : free_jpeg_components(Earlier(i, b))
      \/ /\ FrameOk(p, f) /\ jpg' = f /\ planes' = blank /\ NextMarker(p + Word(p)) /\ lpc' = "image" /\ file' = file
  BY Zenon DEF frame_header
<1>4. CASE jpeg_fail
  BY <1>4, FailSound, Zenon
<1>5. CASE \E i \in 1..f.img_n, b \in kinds : free_jpeg_components(Earlier(i, b))
  <2> HIDE DEF Earlier, kinds, f
  <2> QED BY <1>5, StopSound, Zenon DEF free_jpeg_components
<1>6. CASE FrameOk(p, f) /\ jpg' = f /\ planes' = blank /\ NextMarker(p + Word(p)) /\ lpc' = "image" /\ file' = file
  <2> HIDE DEF p
  <2>1. IsJpg(f) /\ Sized(f)
    BY <1>1, <1>2, <1>6, FrameSized, Zenon
  <2>2. Word(p) \in Nat
    BY <1>2, WordRange, Zenon
  <2>3. p + Word(p) \in Nat
    BY <1>2, <2>2
  <2>4. rd' \in Reader
    BY <1>1, <1>6, <2>3, NextMarkerTyped, Zenon
  <2> HIDE DEF f
  <2>5. DOMAIN blank = 1..f.img_n /\ \A n \in 1..f.img_n : DOMAIN blank[n] = Blank(f, n)
    BY Zenon DEF Blank
  <2> HIDE DEF blank
  <2>6. Framed'
    BY <1>6, <2>1, <2>5, Zenon DEF Framed
  <2>7. IsJpg(jpg')
    BY <1>6, <2>1, Zenon
  <2>8. lpc' \notin {"scan", "line", "ac", "refine", "advance", "block", "idle"}
    BY <1>6
  <2> QED BY <1>6, <2>4, <2>6, <2>7, <2>8, Zenon DEF Sound, InBlock
<1> QED BY <1>3, <1>4, <1>5, <1>6, Zenon

\* What holds at a block, and of the reader with 16 bits at hand.
LEMMA AtBlock ==
  ASSUME Bytes, Sound, lpc \in {"scan"} \cup InBlock
  PROVE  /\ rd \in Reader /\ IsJpg(jpg) /\ Framed /\ Scans(jpg, scan) /\ DOMAIN scan = ScanFields
         /\ scan.at \in Int /\ scan.ss \in Nat /\ scan.se \in 0..63
         /\ Grown(rd, 16) \in Reader
         /\ IsTable(jpg.huff_dc[jpg.comp[Comp].hd]) /\ IsTable(jpg.huff_ac[jpg.comp[Comp].ha])
<1>1. rd \in Reader /\ IsJpg(jpg) /\ Framed /\ Scans(jpg, scan)
  BY Zenon DEF Sound
<1>2. DOMAIN scan = ScanFields /\ scan.interleaved \in BOOLEAN /\ scan.ss \in Nat /\ scan.se \in 0..63
  BY <1>1, Zenon DEF Scans
<1>3. scan.at \in 0..scan.total
  BY <1>1, <1>2, Zenon DEF Scans, Rows
<1>4. scan.at \in Int
  BY <1>3
<1>5. Grown(rd, 16) \in Reader
  BY <1>1, GrownTyped, Zenon DEF Onward
<1> QED BY <1>1, <1>2, <1>4, <1>5, CompTyped, Zenon

\* A DC term leaves a reader.
LEMMA DcTyped ==
  ASSUME Bytes, NEW r \in Reader, IsTable(jpg.huff_dc[jpg.comp[Comp].hd]), NEW factor, DcTerm(r, factor).ok
  PROVE  DcTerm(r, factor).r \in Reader
<1> DEFINE t == huff_decode(r, jpg.huff_dc[jpg.comp[Comp].hd])
           diff == IF t.v > 0 THEN extend_receive(t.r, t.v) ELSE [v |-> 0, r |-> t.r]
           pred == scan.dc_pred[Comp]
           good == [ok |-> TRUE, dc |-> pred + diff.v, r |-> diff.r]
           bad == [ok |-> FALSE]
           d == DcTerm(r, factor)
<1>1. t.r \in Reader
  BY HuffTyped, Zenon DEF Onward
<1>2. d = bad \/ (t.v \in 0..15 /\ d = good)
  BY Zenon DEF DcTerm, DcAfter, DcSum
<1> HIDE DEF t
<1>3. t.v \in 0..15 => diff.r \in Reader
  <2>1. \A n : n \in 0..15 => n \in Nat
    OBVIOUS
  <2>2. t.v \in 0..15 => extend_receive(t.r, t.v).r \in Reader
    BY <1>1, <2>1, TakeTyped, Zenon DEF Onward
  <2>3. CASE t.v > 0
    BY <2>2, <2>3, Zenon
  <2>4. CASE ~ (t.v > 0)
    <3>1. diff = [v |-> 0, r |-> t.r]
      BY <2>4, Zenon
    <3> HIDE DEF diff
    <3>2. diff.r = t.r
      BY <3>1
    <3> QED BY <1>1, <3>2, Zenon
  <2> QED BY <2>3, <2>4, Zenon
<1> HIDE DEF d, pred, diff
<1>4. d.ok
  BY Zenon DEF d
<1>5. d # bad
  BY <1>4
<1>6. d = good /\ diff.r \in Reader
  BY <1>2, <1>3, <1>5, Zenon
<1>7. d.r = diff.r
  BY <1>6
<1> QED BY <1>6, <1>7, Zenon DEF d

\* The DC part of a baseline block.
LEMMA BaselineDcSound ==
  ASSUME Bytes, Sound, decode_block_dc
  PROVE  Sound' /\ file' = file /\ lpc' # "idle"
<1> DEFINE factor == jpg.dequant[jpg.comp[Comp].tq][0]
           r == Grown(rd, 16)
           t == DcTerm(r, factor)
           data == [Zero EXCEPT ![0] = t.dc * factor]
           b == [NoBlk EXCEPT !.k = 1, !.data = data]
           dc == t.dc
           s == [scan EXCEPT !.dc_pred[Comp] = dc]
<1>1. lpc = "scan" /\ scan.at < scan.total /\ ~ jpg.progressive
  BY Zenon DEF decode_block_dc
<1>2. lpc \in {"scan"} \cup InBlock
  BY <1>1, Zenon
<1>3. IF ~ t.ok THEN jpeg_fail ELSE Goes("ac", b, s, t.r)
  BY Zenon DEF decode_block_dc
<1>4. r \in Reader /\ Scans(jpg, scan) /\ IsTable(jpg.huff_dc[jpg.comp[Comp].hd])
  BY <1>2, AtBlock, Zenon
<1>5. CASE ~ t.ok
  <2>1. jpeg_fail
    BY <1>3, <1>5, Zenon
  <2> QED BY <2>1, FailSound, Zenon
<1>6. CASE t.ok
  <2>1. Goes("ac", b, s, t.r)
    BY <1>3, <1>6, Zenon
  <2>2. t.r \in Reader
    <3> HIDE DEF r, factor
    <3> QED BY <1>4, <1>6, DcTyped, Zenon
  <2> HIDE DEF data, dc
  <2>3. Scans(jpg, s) /\ s.at = scan.at /\ s.total = scan.total
    BY <1>4, PredKeeps
  <2>4. DOMAIN b = {"k", "run", "s", "data"} /\ b.k = 1
    BY DEF NoBlk
  <2>5. 1 \in Nat /\ 1 <= 63
    OBVIOUS
  <2> HIDE DEF s, b
  <2>6. InScan(jpg, s, b)
    BY <1>1, <2>3, <2>4, <2>5, Zenon DEF InScan
  <2>7. "ac" \in InBlock /\ "ac" # "block" /\ "ac" \notin {"refine", "advance"}
    BY DEF InBlock
  <2> QED BY <1>1, <1>2, <2>1, <2>2, <2>3, <2>4, <2>5, <2>6, <2>7, GoesSound, Zenon
<1> QED BY <1>5, <1>6, Zenon

\* blk after a symbol.
LEMMA SymbolTyped ==
  ASSUME DOMAIN blk = {"k", "run", "s", "data"}, blk.k \in Nat, NEW a, a.run \in 0..15, NEW factors
  PROVE  LET b == AfterSymbol(a, factors)
         IN DOMAIN b = {"k", "run", "s", "data"} /\ b.k \in Nat /\ b.k <= blk.k + 16
<1> DEFINE z == Zig(blk.k + a.run)
           v == Short(a.value * factors[z])
           zeros == [blk EXCEPT !.k = @ + 16]
           coef == [blk EXCEPT !.k = @ + a.run + 1, !.data[z] = v]
           b == AfterSymbol(a, factors)
<1>1. b = zeros \/ b = coef
  BY Zenon DEF AfterSymbol
<1> HIDE DEF z, v, b
<1>2. DOMAIN zeros = DOMAIN blk /\ zeros.k = blk.k + 16
  OBVIOUS
<1>3. DOMAIN coef = DOMAIN blk /\ coef.k = blk.k + a.run + 1
  OBVIOUS
<1> HIDE DEF zeros, coef
<1>4. DOMAIN b = {"k", "run", "s", "data"} /\ (b.k = blk.k + 16 \/ b.k = blk.k + a.run + 1)
  BY <1>1, <1>2, <1>3, Zenon
<1>5. b.k \in Nat /\ b.k <= blk.k + 16
  BY <1>4
<1> QED BY <1>4, <1>5, Zenon DEF b

\* In a block of which coefficients are to come.
LEMMA AtSymbol ==
  ASSUME Bytes, Sound, lpc \in InBlock
  PROVE  /\ DOMAIN blk = {"k", "run", "s", "data"} /\ blk.k \in Nat /\ scan.at < scan.total
         /\ AcSymbol.ok => AcSymbol.run \in 0..15 /\ AcSymbol.r \in Reader
<1>1. lpc \in {"scan"} \cup InBlock
  BY Zenon
<1>2. rd \in Reader /\ IsTable(jpg.huff_ac[jpg.comp[Comp].ha])
  BY <1>1, AtBlock, Zenon
<1>3. InScan(jpg, scan, blk)
  BY Zenon DEF Sound
<1>4. ASSUME AcSymbol.ok PROVE AcSymbol.run \in 0..15 /\ AcSymbol.r \in Reader
  <2> DEFINE a == AcSymbol
             h == jpg.huff_ac[jpg.comp[Comp].ha]
  <2>1. a = AcNext(Grown(rd, 16), h) /\ a.ok
    BY <1>4, Zenon DEF AcSymbol
  <2> HIDE DEF a, h
  <2>2. a.run \in 0..15 /\ a.r \in Onward(rd)
    BY <1>2, <2>1, AcTyped, Zenon DEF h
  <2> QED BY <2>2, Zenon DEF Onward, a
<1> QED BY <1>3, <1>4, Zenon DEF InScan

\* The AC part of a baseline block.
LEMMA BaselineAcSound ==
  ASSUME Bytes, Sound, decode_block_ac
  PROVE  Sound' /\ file' = file /\ lpc' # "idle"
<1> DEFINE a == AcSymbol
           factors == jpg.dequant[jpg.comp[Comp].tq]
           b == AfterSymbol(a, factors)
           pc == IF b.k < 64 THEN "ac" ELSE "block"
<1>1. lpc = "ac" /\ ~ jpg.progressive /\ lpc \in InBlock /\ lpc \in {"scan"} \cup InBlock
  BY Zenon DEF decode_block_ac, InBlock
<1>2. IF ~ a.ok THEN jpeg_fail ELSE IF a.end THEN Goes("block", blk, scan, a.r) ELSE Goes(pc, b, scan, a.r)
  BY Zenon DEF decode_block_ac, BaselineAc
<1>3. /\ DOMAIN blk = {"k", "run", "s", "data"} /\ blk.k \in Nat /\ scan.at < scan.total
      /\ a.ok => a.run \in 0..15 /\ a.r \in Reader
  BY <1>1, AtSymbol, Zenon
<1> HIDE DEF a
<1>4. blk.k <= 63 /\ Scans(jpg, scan) /\ InScan(jpg, scan, blk)
  BY <1>1, Zenon DEF Sound
<1>5. CASE ~ a.ok
  <2>1. jpeg_fail
    BY <1>2, <1>5, Zenon
  <2> QED BY <2>1, FailSound, Zenon
<1>6. CASE a.ok /\ a.end
  <2>1. Goes("block", blk, scan, a.r)
    BY <1>2, <1>6, Zenon
  <2>2. "block" \in InBlock /\ "block" \notin {"refine", "advance"} /\ "block" # "ac" /\ blk.k <= 79
    BY <1>3, <1>4 DEF InBlock
  <2> QED BY <1>1, <1>3, <1>4, <1>6, <2>1, <2>2, GoesSound, Zenon
<1>7. CASE a.ok /\ ~ a.end
  <2>1. Goes(pc, b, scan, a.r)
    BY <1>2, <1>7, Zenon
  <2>2. DOMAIN b = {"k", "run", "s", "data"} /\ b.k \in Nat /\ b.k <= blk.k + 16
    BY <1>3, <1>7, SymbolTyped, Zenon
  <2> HIDE DEF b
  <2>3. InScan(jpg, scan, b)
    BY <1>3, <2>2, Zenon DEF InScan
  <2>4. pc \in InBlock /\ pc \notin {"refine", "advance"} /\ (pc = "ac" => b.k <= 63) /\ (pc = "block" => b.k <= 79)
    BY <1>3, <1>4, <2>2 DEF InBlock
  <2> HIDE DEF pc
  <2> QED BY <1>1, <1>3, <1>4, <1>7, <2>1, <2>3, <2>4, GoesSound, Zenon
<1> QED BY <1>5, <1>6, <1>7, Zenon

\* A DC scan of a progressive image.
LEMMA ProgDcSound ==
  ASSUME Bytes, Sound, decode_block_prog_dc
  PROVE  Sound' /\ file' = file /\ lpc' # "idle"
<1> DEFINE r == Grown(rd, 16)
           t == DcTerm(r, 2^scan.al)
           bit == jpeg_get_bits(r, 1)
           data(junk) == [Coefficients(junk) EXCEPT ![0] = Short(@ + bit.v * 2^scan.al)]
           first == [Zero EXCEPT ![0] = t.dc * 2^scan.al]
           dc == t.dc
           s == [scan EXCEPT !.dc_pred[Comp] = dc]
<1>1. lpc = "scan" /\ scan.at < scan.total /\ lpc \in {"scan"} \cup InBlock
  BY Zenon DEF decode_block_prog_dc
<1>2. \/ jpeg_fail
      \/ \E junk \in Junk : Goes("block", [NoBlk EXCEPT !.data = data(junk)], scan, bit.r)
      \/ t.ok /\ Goes("block", [NoBlk EXCEPT !.data = first], s, t.r)
  BY Zenon DEF decode_block_prog_dc
<1>3. r \in Reader /\ Scans(jpg, scan) /\ IsTable(jpg.huff_dc[jpg.comp[Comp].hd])
  BY <1>1, AtBlock, Zenon
<1>4. \A d : LET b == [NoBlk EXCEPT !.data = d] IN DOMAIN b = {"k", "run", "s", "data"} /\ b.k = 0
  BY DEF NoBlk
<1>5. 0 \in Nat /\ 0 <= 79 /\ "block" \in InBlock /\ "block" # "ac" /\ "block" \notin {"refine", "advance"}
  BY DEF InBlock
<1>6. CASE jpeg_fail
  BY <1>6, FailSound, Zenon
<1>7. CASE \E junk \in Junk : Goes("block", [NoBlk EXCEPT !.data = data(junk)], scan, bit.r)
  <2>1. PICK junk \in Junk : Goes("block", [NoBlk EXCEPT !.data = data(junk)], scan, bit.r)
    BY <1>7, Zenon
  <2> DEFINE d == data(junk)
             b == [NoBlk EXCEPT !.data = d]
  <2>2. 1 \in Nat
    OBVIOUS
  <2>3. bit.r \in Reader
    <3> HIDE DEF r
    <3> QED BY <1>3, <2>2, TakeTyped, Zenon DEF Onward
  <2>4. Goes("block", b, scan, bit.r)
    BY <2>1, Zenon
  <2> HIDE DEF d
  <2>5. DOMAIN b = {"k", "run", "s", "data"} /\ b.k = 0
    BY <1>4, Zenon
  <2> HIDE DEF b, bit
  <2>6. InScan(jpg, scan, b)
    BY <1>1, <1>5, <2>5, Zenon DEF InScan
  <2> QED BY <1>1, <1>3, <1>5, <2>3, <2>4, <2>5, <2>6, GoesSound, Zenon
<1>8. CASE t.ok /\ Goes("block", [NoBlk EXCEPT !.data = first], s, t.r)
  <2> DEFINE b == [NoBlk EXCEPT !.data = first]
             factor == 2^scan.al
  <2>1. t.r \in Reader
    <3> HIDE DEF r, factor
    <3>1. t = DcTerm(r, factor)
      BY Zenon DEF factor
    <3> QED BY <1>3, <1>8, <3>1, DcTyped, Zenon
  <2> HIDE DEF dc, first
  <2>2. Scans(jpg, s) /\ s.at = scan.at /\ s.total = scan.total
    BY <1>3, PredKeeps
  <2>3. DOMAIN b = {"k", "run", "s", "data"} /\ b.k = 0
    BY <1>4, Zenon
  <2>4. Goes("block", b, s, t.r)
    BY <1>8, Zenon
  <2> HIDE DEF b, s, t
  <2>5. InScan(jpg, s, b)
    BY <1>1, <1>5, <2>2, <2>3, Zenon DEF InScan
  <2> QED BY <1>1, <1>5, <2>1, <2>2, <2>3, <2>4, <2>5, GoesSound, Zenon
<1> QED BY <1>2, <1>6, <1>7, <1>8, Zenon

\* The start of a block of an AC scan.
LEMMA ProgAcSound ==
  ASSUME Bytes, Sound, decode_block_prog_ac
  PROVE  Sound' /\ file' = file /\ lpc' # "idle"
<1>1. lpc = "scan" /\ scan.at < scan.total /\ jpg.progressive /\ lpc \in {"scan"} \cup InBlock
  BY Zenon DEF decode_block_prog_ac
<1>2. PICK junk \in Junk :
        LET b == [NoBlk EXCEPT !.k = scan.ss, !.data = Coefficients(junk)]
            less == [scan EXCEPT !.eob_run = @ - 1]
        IN IF scan.eob_run = 0 THEN Goes(IF scan.ah = 0 THEN "ac" ELSE "refine", b, scan, rd)
           ELSE IF scan.ah = 0 THEN Goes("block", b, less, rd)
           ELSE Goes("advance", [b EXCEPT !.run = 64], less, rd)
  BY Zenon DEF decode_block_prog_ac
<1> DEFINE data == Coefficients(junk)
           b == [NoBlk EXCEPT !.k = scan.ss, !.data = data]
           c == [b EXCEPT !.run = 64]
           rest == scan.eob_run - 1
           less == [scan EXCEPT !.eob_run = rest]
           pc == IF scan.ah = 0 THEN "ac" ELSE "refine"
<1>3. rd \in Reader /\ Scans(jpg, scan) /\ scan.ss \in Nat /\ scan.se \in 0..63
  BY <1>1, AtBlock, Zenon
<1>4. scan.ss <= scan.se
  BY <1>1, <1>3, Zenon DEF Scans
<1>5. scan.ss <= 63 /\ scan.ss <= 79
  BY <1>3, <1>4
<1>6. Goes(pc, b, scan, rd) \/ Goes("block", b, less, rd) \/ Goes("advance", c, less, rd)
  BY <1>2, Zenon
<1> HIDE DEF data, rest
<1>7. DOMAIN b = {"k", "run", "s", "data"} /\ b.k = scan.ss
  BY DEF NoBlk
<1>8. DOMAIN c = {"k", "run", "s", "data"} /\ c.k = scan.ss
  <2> HIDE DEF b
  <2> QED BY <1>7
<1>9. Scans(jpg, less) /\ less.at = scan.at /\ less.total = scan.total /\ less.se = scan.se
  BY <1>3, RunKeeps
<1> HIDE DEF b, c, less
<1>10. InScan(jpg, scan, b) /\ InScan(jpg, less, b) /\ InScan(jpg, less, c)
  BY <1>1, <1>3, <1>7, <1>8, <1>9, Zenon DEF InScan
<1>11. pc \in InBlock /\ "block" \in InBlock /\ "advance" \in InBlock /\ pc # "block"
       /\ "block" # "ac" /\ "advance" # "ac" /\ "advance" # "block"
  BY DEF InBlock
<1> HIDE DEF pc
<1>12. CASE Goes(pc, b, scan, rd)
  BY <1>1, <1>3, <1>4, <1>5, <1>7, <1>10, <1>11, <1>12, GoesSound, Zenon
<1>13. CASE Goes("block", b, less, rd)
  BY <1>1, <1>3, <1>4, <1>5, <1>7, <1>9, <1>10, <1>11, <1>13, GoesSound, Zenon
<1>14. CASE Goes("advance", c, less, rd)
  BY <1>1, <1>3, <1>4, <1>5, <1>8, <1>9, <1>10, <1>11, <1>14, GoesSound, Zenon
<1> QED BY <1>6, <1>12, <1>13, <1>14, Zenon

\* A symbol of the first AC scan.
LEMMA ProgFirstSound ==
  ASSUME Bytes, Sound, prog_ac_first
  PROVE  Sound' /\ file' = file /\ lpc' # "idle"
<1> DEFINE a == AcSymbol
           factors == [z \in 0..63 |-> 2^scan.al]
           b == AfterSymbol(a, factors)
           more == IF a.run > 0 THEN jpeg_get_bits(a.r, a.run) ELSE [v |-> 0, r |-> a.r]
           rest == 2^a.run + more.v - 1
           s == [scan EXCEPT !.eob_run = rest]
           pc == IF b.k <= scan.se THEN "ac" ELSE "block"
<1>1. lpc = "ac" /\ jpg.progressive /\ lpc \in InBlock /\ lpc \in {"scan"} \cup InBlock
  BY Zenon DEF prog_ac_first, InBlock
<1>2. IF ~ a.ok THEN jpeg_fail ELSE IF a.end THEN Goes("block", blk, s, more.r) ELSE Goes(pc, b, scan, a.r)
  BY Zenon DEF prog_ac_first, ProgressiveAc
<1>3. /\ DOMAIN blk = {"k", "run", "s", "data"} /\ blk.k \in Nat /\ scan.at < scan.total
      /\ a.ok => a.run \in 0..15 /\ a.r \in Reader
  BY <1>1, AtSymbol, Zenon
<1> HIDE DEF a
<1>4. blk.k <= 63 /\ Scans(jpg, scan) /\ InScan(jpg, scan, blk)
  BY <1>1, Zenon DEF Sound
<1>5. scan.se \in 0..63
  BY <1>4, Zenon DEF Scans
<1>6. CASE ~ a.ok
  <2>1. jpeg_fail
    BY <1>2, <1>6, Zenon
  <2> QED BY <2>1, FailSound, Zenon
<1>7. CASE a.ok /\ a.end
  <2>1. Goes("block", blk, s, more.r)
    BY <1>2, <1>7, Zenon
  <2>2. more.r \in Reader
    <3>1. \A n : n \in 0..15 => n \in Nat
      OBVIOUS
    <3>2. jpeg_get_bits(a.r, a.run).r \in Reader
      BY <1>3, <1>7, <3>1, TakeTyped, Zenon DEF Onward
    <3>3. [v |-> 0, r |-> a.r].r = a.r
      OBVIOUS
    <3> QED BY <1>3, <1>7, <3>2, <3>3, Zenon
  <2> HIDE DEF rest, more
  <2>3. Scans(jpg, s) /\ s.at = scan.at /\ s.total = scan.total
    BY <1>4, RunKeeps
  <2> HIDE DEF s
  <2>4. InScan(jpg, s, blk)
    BY <1>3, <2>3, Zenon DEF InScan
  <2>5. "block" \in InBlock /\ "block" \notin {"refine", "advance"} /\ "block" # "ac" /\ blk.k <= 79
    BY <1>3, <1>4 DEF InBlock
  <2> QED BY <1>1, <2>1, <2>2, <2>3, <2>4, <2>5, GoesSound, Zenon
<1>8. CASE a.ok /\ ~ a.end
  <2>1. Goes(pc, b, scan, a.r)
    BY <1>2, <1>8, Zenon
  <2> HIDE DEF factors
  <2>2. DOMAIN b = {"k", "run", "s", "data"} /\ b.k \in Nat /\ b.k <= blk.k + 16
    BY <1>3, <1>8, SymbolTyped, Zenon
  <2> HIDE DEF b
  <2>3. InScan(jpg, scan, b)
    BY <1>3, <2>2, Zenon DEF InScan
  <2>4. pc \in InBlock /\ pc \notin {"refine", "advance"} /\ (pc = "ac" => b.k <= 63 /\ b.k <= scan.se)
        /\ (pc = "block" => b.k <= 79)
    BY <1>3, <1>4, <1>5, <2>2 DEF InBlock
  <2> HIDE DEF pc
  <2> QED BY <1>1, <1>3, <1>4, <1>8, <2>1, <2>3, <2>4, GoesSound, Zenon
<1> QED BY <1>6, <1>7, <1>8, Zenon

\* A symbol of a refinement scan.
LEMMA RefineSound ==
  ASSUME Bytes, Sound, prog_ac_refine
  PROVE  Sound' /\ file' = file /\ lpc' # "idle"
<1> DEFINE d == huff_decode(rd, jpg.huff_ac[jpg.comp[Comp].ha])
           run == d.v \div 16
           more == IF run > 0 THEN jpeg_get_bits(d.r, run) ELSE [v |-> 0, r |-> d.r]
           sign == jpeg_get_bits(d.r, 1)
           bit == 2^scan.al
           new == IF sign.v = 1 THEN bit ELSE -bit
           rest == 2^run - 1 + more.v
           coef == [blk EXCEPT !.run = run, !.s = new]
           zeros == [blk EXCEPT !.run = 15, !.s = 0]
           last == [blk EXCEPT !.run = 64, !.s = 0]
           s == [scan EXCEPT !.eob_run = rest]
<1>1. lpc = "refine" /\ lpc \in InBlock /\ lpc \in {"scan"} \cup InBlock
  BY Zenon DEF prog_ac_refine, InBlock
<1>2. \/ jpeg_fail
      \/ ~ (d.v < 0) /\ (\/ Goes("advance", coef, scan, sign.r) \/ Goes("advance", zeros, scan, d.r)
                         \/ Goes("advance", last, s, more.r))
  BY Zenon DEF prog_ac_refine, RefinementAc
<1>3. /\ rd \in Reader /\ IsTable(jpg.huff_ac[jpg.comp[Comp].ha]) /\ Scans(jpg, scan)
  BY <1>1, AtBlock, Zenon
<1>4. InScan(jpg, scan, blk) /\ blk.k <= scan.se
  BY <1>1, Zenon DEF Sound
<1>5. d.v \in Octet \cup {-1} /\ d.r \in Reader
  BY <1>3, HuffTyped, Zenon DEF Onward
<1> HIDE DEF d
<1>6. 1 \in Nat /\ "advance" \in InBlock /\ "advance" # "ac" /\ "advance" # "block"
  BY DEF InBlock
<1>7. sign.r \in Reader
  BY <1>5, <1>6, TakeTyped, Zenon DEF Onward
<1>8. ASSUME ~ (d.v < 0) PROVE more.r \in Reader
  <2>1. run \in Nat
    BY <1>5, <1>8 DEF Octet
  <2> HIDE DEF run
  <2>2. jpeg_get_bits(d.r, run).r \in Reader
    BY <1>5, <2>1, TakeTyped, Zenon DEF Onward
  <2>3. [v |-> 0, r |-> d.r].r = d.r
    OBVIOUS
  <2> QED BY <1>5, <2>2, <2>3, Zenon
<1> HIDE DEF run, more, sign, new, rest
<1>9. DOMAIN blk = {"k", "run", "s", "data"} /\ blk.k \in Nat /\ scan.at < scan.total
  BY <1>4, Zenon DEF InScan
<1>10. /\ DOMAIN coef = DOMAIN blk /\ coef.k = blk.k /\ DOMAIN zeros = DOMAIN blk /\ zeros.k = blk.k
       /\ DOMAIN last = DOMAIN blk /\ last.k = blk.k
  BY <1>9
<1>11. Scans(jpg, s) /\ s.at = scan.at /\ s.total = scan.total /\ s.se = scan.se
  BY <1>3, RunKeeps
<1> HIDE DEF coef, zeros, last, s
<1>12. InScan(jpg, scan, coef) /\ InScan(jpg, scan, zeros) /\ InScan(jpg, s, last)
  BY <1>9, <1>10, <1>11, Zenon DEF InScan
<1>13. CASE jpeg_fail
  BY <1>13, FailSound, Zenon
<1>14. CASE Goes("advance", coef, scan, sign.r)
  BY <1>1, <1>3, <1>4, <1>6, <1>7, <1>10, <1>12, <1>14, GoesSound, Zenon
<1>15. CASE Goes("advance", zeros, scan, d.r)
  BY <1>1, <1>3, <1>4, <1>5, <1>6, <1>10, <1>12, <1>15, GoesSound, Zenon
<1>16. CASE ~ (d.v < 0) /\ Goes("advance", last, s, more.r)
  BY <1>1, <1>4, <1>6, <1>8, <1>10, <1>11, <1>12, <1>16, GoesSound, Zenon
<1> QED BY <1>2, <1>13, <1>14, <1>15, <1>16, Zenon

\* One coefficient on the way.
LEMMA AdvanceSound ==
  ASSUME Bytes, Sound, prog_ac_advance
  PROVE  Sound' /\ file' = file /\ lpc' # "idle"
<1> DEFINE z == Zig(blk.k)
           p == blk.data[z]
           bit == 2^scan.al
           g == jpeg_get_bits(rd, 1)
           add == g.v = 1 /\ (p \div bit) % 2 = 0
           next == [blk EXCEPT !.k = @ + 1]
           last == blk.k = scan.se
           v == IF ~ add THEN next.data[z]
                ELSE IF next.data[z] > 0 THEN Short(next.data[z] + bit) ELSE Short(next.data[z] - bit)
           w == Short(blk.s)
           less == next.run - 1
           b1 == [next EXCEPT !.data[z] = v]
           b2 == [next EXCEPT !.data[z] = w]
           b3 == [next EXCEPT !.run = less]
           pc1 == IF last THEN "block" ELSE "advance"
           pc2 == IF last THEN "block" ELSE "refine"
<1>1. lpc = "advance" /\ lpc \in InBlock /\ lpc \in {"scan"} \cup InBlock
  BY Zenon DEF prog_ac_advance, InBlock
<1>2. Goes(pc1, b1, scan, g.r) \/ Goes(pc2, b2, scan, rd) \/ Goes(pc1, b3, scan, rd)
  BY DEF prog_ac_advance
<1>3. rd \in Reader /\ Scans(jpg, scan) /\ scan.se \in 0..63
  BY <1>1, AtBlock, Zenon
<1>4. InScan(jpg, scan, blk) /\ blk.k <= scan.se
  BY <1>1, Zenon DEF Sound
<1>5. DOMAIN blk = {"k", "run", "s", "data"} /\ blk.k \in Nat /\ scan.at < scan.total
  BY <1>4, Zenon DEF InScan
<1>6. DOMAIN next = DOMAIN blk /\ next.k = blk.k + 1
  BY <1>5
<1>7. 1 \in Nat
  OBVIOUS
<1>8. g.r \in Reader
  BY <1>3, <1>7, TakeTyped, Zenon DEF Onward
<1> HIDE DEF next, v, w, less, z, g
<1>9. DOMAIN b1 = DOMAIN next /\ b1.k = next.k /\ DOMAIN b2 = DOMAIN next /\ b2.k = next.k
      /\ DOMAIN b3 = DOMAIN next /\ b3.k = next.k
  BY <1>5, <1>6
<1> HIDE DEF b1, b2, b3
<1>10. next.k \in Nat /\ next.k <= 79 /\ (~ last => next.k <= scan.se)
  BY <1>3, <1>4, <1>5, <1>6
<1>11. InScan(jpg, scan, b1) /\ InScan(jpg, scan, b2) /\ InScan(jpg, scan, b3)
  BY <1>5, <1>6, <1>9, <1>10, Zenon DEF InScan
<1>12. pc1 \in InBlock /\ pc2 \in InBlock /\ pc1 # "ac" /\ pc2 # "ac"
       /\ (pc1 \in {"refine", "advance"} => ~ last) /\ (pc2 \in {"refine", "advance"} => ~ last)
  BY DEF InBlock
<1> HIDE DEF pc1, pc2, last
<1>13. CASE Goes(pc1, b1, scan, g.r)
  BY <1>1, <1>3, <1>8, <1>9, <1>10, <1>11, <1>12, <1>13, GoesSound, Zenon
<1>14. CASE Goes(pc2, b2, scan, rd)
  BY <1>1, <1>3, <1>9, <1>10, <1>11, <1>12, <1>14, GoesSound, Zenon
<1>15. CASE Goes(pc1, b3, scan, rd)
  BY <1>1, <1>3, <1>9, <1>10, <1>11, <1>12, <1>15, GoesSound, Zenon
<1> QED BY <1>2, <1>13, <1>14, <1>15, Zenon

\* The end of a block: the next one, of this MCU or another, or the scan is given
\* up at a restart marker that is not there.
LEMMA NextBlockSound ==
  ASSUME Bytes, Sound, next_block
  PROVE  Sound' /\ file' = file /\ lpc' # "idle"
<1> DEFINE mcu == scan.b = Len(scan.mcu)
           todo == scan.todo - 1
           up == [scan EXCEPT !.at = @ + 1, !.b = 1, !.todo = todo]
           along == [scan EXCEPT !.b = @ + 1]
           on == IF mcu THEN up ELSE along
           r == Grown(rd, 24)
<1>1. lpc = "block" /\ lpc \in InBlock /\ lpc \in {"scan"} \cup InBlock
  BY Zenon DEF next_block, InBlock
<1>2. /\ lpc' = "scan" /\ blk' = NoBlk /\ jpg' = jpg /\ file' = file
      /\ \/ scan' = on /\ rd' = rd
         \/ scan' = ResetScan(on) /\ rd' = Reset(r)
         \/ scan' = [on EXCEPT !.total = on.at] /\ rd' = r
  BY Zenon DEF next_block
<1>3. DOMAIN planes' = DOMAIN planes /\ \A n \in DOMAIN planes : DOMAIN (planes'[n]) = DOMAIN planes[n]
  <2> DEFINE c == Comp
             at == Place
             samples == idct_block(blk.data)
  <2>1. planes' = planes \/ planes' = [planes EXCEPT ![c][at] = samples]
    BY Zenon DEF next_block
  <2> HIDE DEF c, at, samples
  <2> QED BY <2>1
<1>4. rd \in Reader /\ IsJpg(jpg) /\ Framed /\ Scans(jpg, scan) /\ InScan(jpg, scan, blk)
  BY <1>1, Zenon DEF Sound
<1>5. r \in Reader /\ Reset(r) \in Reader
  <2>1. r \in Reader
    BY <1>4, GrownTyped, Zenon DEF Onward
  <2> HIDE DEF r
  <2>2. <<>> \in Seq(ZeroOne) /\ MARKER_none \in Octet
    BY DEF MARKER_none, Octet
  <2> DEFINE none == <<>>
             no == FALSE
  <2>3. none \in Seq(ZeroOne) /\ no \in BOOLEAN
    BY <2>2, Zenon
  <2> HIDE DEF none, no
  <2>4. [r EXCEPT !.bits = none, !.nomore = no, !.marker = MARKER_none] \in Reader
    BY <2>1, <2>2, <2>3, Zenon DEF Reader
  <2> QED BY <2>1, <2>4, Zenon DEF Reset, none, no
<1>6. Framed'
  <2>1. DOMAIN planes = 1..jpg.img_n /\ Sized(jpg) /\ \A n \in 1..jpg.img_n : DOMAIN planes[n] = Blank(jpg, n)
    BY <1>4, Zenon DEF Framed
  <2>2. Sized(jpg') /\ \A n \in 1..jpg'.img_n : DOMAIN (planes'[n]) = Blank(jpg', n)
    BY <1>2, <1>3, <2>1, Zenon
  <2> QED BY <1>2, <1>3, <2>1, <2>2, Zenon DEF Framed
<1>7. /\ DOMAIN scan = ScanFields /\ scan.at \in Nat /\ scan.total \in Nat /\ scan.at < scan.total
      /\ scan.b \in 1..Len(scan.mcu) /\ Len(scan.mcu) \in Nat
  <2> DEFINE S == (1..jpg.img_n) \X (0..3) \X (0..3)
  <2>1. /\ scan.mcu \in Seq(S) /\ DOMAIN scan = ScanFields /\ scan.b \in 1..Len(scan.mcu)
        /\ scan.total \in Nat /\ scan.at \in 0..scan.total /\ scan.at < scan.total
    BY <1>4, Zenon DEF Scans, InScan, Rows
  <2> HIDE DEF S
  <2> QED BY <2>1
<1>8. /\ DOMAIN on = ScanFields /\ on.mcu = scan.mcu /\ on.interleaved = scan.interleaved
      /\ on.across = scan.across /\ on.ss = scan.ss /\ on.se = scan.se /\ on.total = scan.total
      /\ on.at \in 0..on.total /\ on.b \in 1..Len(on.mcu)
  <2> HIDE DEF todo
  <2>1. CASE mcu
    <3>1. /\ DOMAIN up = ScanFields /\ up.mcu = scan.mcu /\ up.interleaved = scan.interleaved
          /\ up.across = scan.across /\ up.ss = scan.ss /\ up.se = scan.se /\ up.total = scan.total
          /\ up.at = scan.at + 1 /\ up.b = 1
      BY <1>7 DEF ScanFields
    <3> HIDE DEF up
    <3>2. up.at \in 0..up.total /\ up.b \in 1..Len(up.mcu)
      BY <1>7, <3>1
    <3> QED BY <2>1, <3>1, <3>2, Zenon
  <2>2. CASE ~ mcu
    <3>1. /\ DOMAIN along = ScanFields /\ along.mcu = scan.mcu /\ along.interleaved = scan.interleaved
          /\ along.across = scan.across /\ along.ss = scan.ss /\ along.se = scan.se /\ along.total = scan.total
          /\ along.at = scan.at /\ along.b = scan.b + 1
      BY <1>7 DEF ScanFields
    <3> HIDE DEF along
    <3>2. along.at \in 0..along.total /\ along.b \in 1..Len(along.mcu)
      BY <1>7, <2>2, <3>1
    <3> QED BY <2>2, <3>1, <3>2, Zenon
  <2> QED BY <2>1, <2>2, Zenon
<1> HIDE DEF on
<1>9. Scans(jpg, scan')
  <2>1. Sized(jpg) /\ scan.total <= scan.total
    BY <1>4, <1>7 DEF Framed
  <2>2. Scans(jpg, on)
    BY <1>4, <1>7, <1>8, <2>1, ScanMoves, Zenon
  <2>3. Scans(jpg, ResetScan(on))
    <3> DEFINE pred == <<0, 0, 0, 0>>
               every == IF jpg.restart_interval > 0 THEN jpg.restart_interval ELSE INT_MAX
               t == [on EXCEPT !.dc_pred = pred, !.eob_run = 0, !.todo = every]
    <3>1. t = ResetScan(on)
      BY Zenon DEF ResetScan
    <3> HIDE DEF pred, every
    <3>2. /\ DOMAIN t = ScanFields /\ t.mcu = on.mcu /\ t.interleaved = on.interleaved
          /\ t.across = on.across /\ t.ss = on.ss /\ t.se = on.se /\ t.total = on.total
          /\ t.at = on.at /\ t.b = on.b
      BY <1>8 DEF ScanFields
    <3> HIDE DEF t
    <3>3. Scans(jpg, t)
      BY <2>2, <3>2, ScanKeeps, Zenon
    <3> QED BY <3>1, <3>3, Zenon
  <2>4. Scans(jpg, [on EXCEPT !.total = on.at])
    <3> DEFINE t == [on EXCEPT !.total = on.at]
    <3>1. /\ DOMAIN t = ScanFields /\ t.mcu = on.mcu /\ t.interleaved = on.interleaved
          /\ t.across = on.across /\ t.ss = on.ss /\ t.se = on.se /\ t.total = on.at
          /\ t.at = on.at /\ t.b = on.b
      BY <1>8 DEF ScanFields
    <3> HIDE DEF t
    <3>2. on.at \in Nat /\ on.at <= scan.total /\ on.at \in 0..on.at
      BY <1>7, <1>8
    <3>3. Scans(jpg, t)
      BY <1>4, <1>8, <2>1, <3>1, <3>2, ScanMoves, Zenon
    <3> QED BY <3>3, Zenon DEF t
  <2> QED BY <1>2, <2>2, <2>3, <2>4, Zenon
<1>10. rd' \in Reader /\ IsJpg(jpg') /\ Scans(jpg', scan')
  BY <1>2, <1>4, <1>5, <1>9, Zenon
<1>11. lpc' \notin InBlock /\ lpc' # "line" /\ lpc' # "idle" /\ lpc' # "refine" /\ lpc' # "advance"
       /\ lpc' # "ac" /\ lpc' # "block"
  BY <1>2 DEF InBlock
<1> QED BY <1>2, <1>6, <1>10, <1>11, Zenon DEF Sound

\* Skipping the junk after a scan leaves a reader.
LEMMA JunkTyped ==
  ASSUME Bytes, NEW r \in Reader
  PROVE  skip_jpeg_junk_at_end(r) \in Reader
<1> DEFINE ends == {q \in r.pos + 1..Len(file) - 1 : Byte(q - 1) = 255 /\ Byte(q) \notin {0, 255}}
           OK(q) == \A e \in ends : q <= e
           q0 == CHOOSE q \in ends : OK(q)
           b == Byte(q0)
<1>1. r.pos \in Nat /\ Len(file) \in Nat
  BY DEF Reader, Bytes
<1>2. skip_jpeg_junk_at_end(r) = IF ends = {} THEN [r EXCEPT !.pos = Len(file)]
                                 ELSE [r EXCEPT !.pos = q0 + 1, !.marker = b]
  BY Zenon DEF skip_jpeg_junk_at_end
<1>3. ends \subseteq Nat
  BY <1>1
<1> HIDE DEF ends
<1>4. CASE ends = {}
  <2>1. skip_jpeg_junk_at_end(r) = [r EXCEPT !.pos = Len(file)]
    BY <1>2, <1>4, Zenon
  <2> DEFINE n == Len(file)
  <2>2. n \in Nat
    BY <1>1
  <2> HIDE DEF n
  <2>3. [r EXCEPT !.pos = n] \in Reader
    BY <2>2 DEF Reader
  <2> QED BY <2>1, <2>3, Zenon DEF n
<1>5. CASE ends # {}
  <2>1. \E q \in ends : OK(q)
    BY <1>3, <1>5, Least, Zenon
  <2>2. q0 \in ends
    <3> HIDE DEF OK
    <3> QED BY <2>1, Zenon
  <2> HIDE DEF q0
  <2>3. q0 \in Nat
    BY <1>3, <2>2, Zenon
  <2>4. b \in Octet
    BY <2>3, ByteRange, Zenon
  <2>5. skip_jpeg_junk_at_end(r) = [r EXCEPT !.pos = q0 + 1, !.marker = b]
    BY <1>2, <1>5, Zenon
  <2> HIDE DEF b
  <2> DEFINE q1 == q0 + 1
  <2>6. q1 \in Nat
    BY <2>3
  <2> HIDE DEF q1
  <2>7. [r EXCEPT !.pos = q1, !.marker = b] \in Reader
    BY <2>4, <2>6, Zenon DEF Reader
  <2> QED BY <2>5, <2>7, Zenon DEF q1
<1> QED BY <1>4, <1>5, Zenon

\* The end of a scan.
LEMMA ScanEndSound ==
  ASSUME Bytes, Sound, scan_end
  PROVE  Sound' /\ file' = file /\ lpc' # "idle"
<1> DEFINE r == IF rd.marker = MARKER_none THEN skip_jpeg_junk_at_end(rd) ELSE rd
           g == get_marker(r)
           next == IF g.m \in 208..215 THEN get_marker(g.r) ELSE g
<1>1. lpc = "scan" /\ rd' = next.r /\ lpc' = "image" /\ file' = file /\ jpg' = jpg /\ planes' = planes
  BY Zenon DEF scan_end
<1>2. rd \in Reader /\ IsJpg(jpg) /\ Framed
  BY <1>1, Zenon DEF Sound
<1>3. r \in Reader
  BY <1>2, JunkTyped, Zenon
<1> HIDE DEF r
<1>4. g.r \in Reader
  BY <1>3, MarkerTyped, Zenon
<1> HIDE DEF g
<1>5. next.r \in Reader
  BY <1>4, MarkerTyped, Zenon
<1>6. SameFrame(jpg)
  BY Zenon DEF SameFrame
<1> QED BY <1>1, <1>2, <1>5, <1>6, ImageSound, Zenon

-----------------------------------------------------------------------------
(* The whole decoder.                                                        *)

\* Every step of the decoder.
LEMMA DecodeSound ==
  ASSUME Bytes, Sound, jNext
  PROVE  Sound' /\ file' = file /\ lpc' # "idle"
<1>1. CASE jpeg_load \/ header_segment \/ padding \/ frame_header
  BY <1>1, LoadSound, SegmentSound, FrameSound, Zenon
<1>2. CASE scan_header \/ line_count \/ image_segment \/ end_of_image
  BY <1>2, ScanHeaderSound, BetweenSound, Zenon
<1>3. CASE decode_block_dc \/ decode_block_ac \/ decode_block_prog_dc \/ decode_block_prog_ac
  BY <1>3, BaselineDcSound, BaselineAcSound, ProgDcSound, ProgAcSound, Zenon
<1>4. CASE prog_ac_first \/ prog_ac_refine \/ prog_ac_advance
  BY <1>4, ProgFirstSound, RefineSound, AdvanceSound, Zenon
<1>5. CASE next_block \/ scan_end \/ jpeg_finish
  BY <1>5, NextBlockSound, ScanEndSound, FinishSound, Zenon
<1>6. CASE start_output \/ output_line \/ output_done
  BY <1>6, OutputSound, NextLineSound, DoneSound, Zenon
<1> QED BY <1>1, <1>2, <1>3, <1>4, <1>5, <1>6, Zenon DEF jNext

\* Every step of the system.
LEMMA InsideNext ==
  ASSUME InsideInv, [Next]_vars
  PROVE  InsideInv'
<1>1. CASE write_jpg_core
  <2>1. lpc = "idle" /\ lpc' = lpc /\ rd' = rd /\ jpg' = jpg
    BY <1>1, Zenon DEF write_jpg_core, jvars, lvars
  <2>2. lpc' \notin {"image", "scan", "finish", "output", "line", "ac", "refine", "advance", "block"}
    BY <2>1
  <2>3. rd' \in Reader /\ IsJpg(jpg')
    BY <2>1, Zenon DEF InsideInv, Sound
  <2> QED BY <2>2, <2>3, Zenon DEF InsideInv, Sound, InBlock
<1>2. CASE load_jpeg
  <2>1. lpc = "idle" /\ lpc' = "test" /\ rd' = rd /\ jpg' = jpg
    BY <1>2, Zenon DEF load_jpeg, start_mem
  <2>2. lpc' \in {"test", "header", "padding", "ok", "fail", "outofmem"}
    BY <2>1
  <2>3. rd' \in Reader /\ IsJpg(jpg')
    BY <2>1, Zenon DEF InsideInv, Sound
  <2> QED BY <2>2, <2>3, HeaderSound, Zenon DEF InsideInv
<1>3. CASE decode_jpeg
  <2>1. jNext
    BY <1>3, Zenon DEF decode_jpeg
  <2>2. CASE Bytes
    BY <2>1, <2>2, DecodeSound, Zenon DEF InsideInv
  <2>3. CASE ~ Bytes
    <3>1. file' = file /\ lpc' # "idle"
      BY <2>1, FileKept, Zenon
    <3> QED BY <2>3, <3>1, Zenon DEF InsideInv, Bytes
  <2> QED BY <2>2, <2>3, Zenon
<1>4. CASE facet_image_free
  <2>1. lpc = "ok" /\ lpc' = "ok" /\ rd' = rd /\ jpg' = jpg /\ file' = file
    BY <1>4, Zenon DEF facet_image_free, jvars
  <2>2. lpc' \in {"test", "header", "padding", "ok", "fail", "outofmem"} /\ lpc' # "idle"
    BY <2>1
  <2>3. ASSUME Bytes' PROVE rd' \in Reader /\ IsJpg(jpg')
    BY <2>1, <2>3, Zenon DEF InsideInv, Sound, Bytes
  <2> QED BY <2>2, <2>3, HeaderSound, Zenon DEF InsideInv
<1>5. CASE UNCHANGED vars
  BY <1>5, Zenon DEF vars, jvars, lvars, InsideInv, Bytes, Sound, Framed, DecodeN, OutN, IsRgb
<1> QED BY <1>1, <1>2, <1>3, <1>4, <1>5, Zenon DEF Next, done

\* On every file of bytes, however it is damaged, the decoder writes its blocks
\* inside the planes that the frame header made it allocate, looks its
\* coefficients up inside the zigzag table, and reads and writes inside the
\* planes and the line buffers when it resamples.
THEOREM AlwaysInside == Spec => [](Bytes => Inside)
<1>1. Init => InsideInv
  BY InsideInit, Zenon DEF InsideInv
<1>2. InsideInv /\ [Next]_vars => InsideInv'
  BY InsideNext, Zenon
<1>3. InsideInv => (Bytes => Inside)
  BY SoundInside, Zenon DEF InsideInv
<1> QED BY <1>1, <1>2, <1>3, PTL DEF Spec
=============================================================================
