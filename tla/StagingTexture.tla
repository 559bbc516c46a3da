--------------------------- MODULE StagingTexture ---------------------------
(***************************************************************************)
(* The AbstractStagingTexture contract as each backend implements it for   *)
(* a Readback staging texture: DXStagingTexture (D3D/DXTexture.cpp),       *)
(* OGLStagingTexture with and without persistent buffer mappings           *)
(* (OGL/OGLTexture.cpp) and SWStagingTexture (Software/SWTexture.cpp).     *)
(*                                                                         *)
(* The state of one staging texture is a record:                           *)
(*   mapped     -- m_map_pointer is non-null (the CPU pointer is valid),   *)
(*   needsFlush -- m_needs_flush: a GPU->CPU copy was issued and Flush()   *)
(*                 has not yet waited for it,                              *)
(*   dims       -- the TextureConfig it was created with,                  *)
(*   data       -- which frame the buffer's memory holds (0 = none).       *)
(* Pixel contents are abstracted to the identity of the frame copied in.   *)
(***************************************************************************)
EXTENDS Naturals

CONSTANT Backend

Backends == {"D3D", "OGLPersistent", "OGLMapped", "SW"}

ASSUME Backend \in Backends

\* UsePersistentStagingBuffers(): ARB_buffer_storage, image load/store and
\* sync objects are all present. "OGLPersistent" is a GL driver that has
\* them, "OGLMapped" one that does not.
UsePersistentStagingBuffers == Backend = "OGLPersistent"

StagingState(Dims, Frames) ==
  [mapped: BOOLEAN, needsFlush: BOOLEAN, dims: Dims, data: Frames]

-----------------------------------------------------------------------------
(* Create(type = Readback, config)                                         *)

\* DXStagingTexture::Create: a D3D11_USAGE_STAGING texture, not mapped.
D3DCreate(d) == [mapped |-> FALSE, needsFlush |-> FALSE, dims |-> d, data |-> 0]

\* OGLStagingTexture::Create: with buffer storage the buffer is mapped
\* persistently at creation, otherwise it is mapped on demand.
OGLCreate(d) ==
  [mapped |-> UsePersistentStagingBuffers, needsFlush |-> FALSE, dims |-> d, data |-> 0]

\* SWStagingTexture: m_map_pointer points into its own vector from the start.
SWCreate(d) == [mapped |-> TRUE, needsFlush |-> FALSE, dims |-> d, data |-> 0]

Create(d) ==
  CASE Backend = "D3D" -> D3DCreate(d)
    [] Backend = "SW"  -> SWCreate(d)
    [] OTHER           -> OGLCreate(d)

-----------------------------------------------------------------------------
(* CopyFromTexture(src, ...): copy frame f from a GPU texture.             *)

\* Unmaps first if mapped, queues CopySubresourceRegion, sets m_needs_flush.
D3DCopyFromTexture(st, f) ==
  [st EXCEPT !.mapped = FALSE, !.needsFlush = TRUE, !.data = f]

\* Without persistent mappings the buffer is unmapped before the pack; with
\* them it stays mapped and a fence is inserted. m_needs_flush is set.
OGLCopyFromTexture(st, f) ==
  [st EXCEPT !.mapped = IF UsePersistentStagingBuffers THEN @ ELSE FALSE,
             !.needsFlush = TRUE, !.data = f]

\* CopyTextureData into m_data, then m_needs_flush = true.
SWCopyFromTexture(st, f) == [st EXCEPT !.needsFlush = TRUE, !.data = f]

CopyFromTexture(st, f) ==
  CASE Backend = "D3D" -> D3DCopyFromTexture(st, f)
    [] Backend = "SW"  -> SWCopyFromTexture(st, f)
    [] OTHER           -> OGLCopyFromTexture(st, f)

-----------------------------------------------------------------------------
(* Flush, Map, Unmap                                                       *)

\* "Flushing is handled by the API": clears m_needs_flush.
D3DFlush(st) == [st EXCEPT !.needsFlush = FALSE]

\* Waits on the fence when there is one (persistent), else a no-op; both
\* clear m_needs_flush.
OGLFlush(st) == [st EXCEPT !.needsFlush = FALSE]

SWFlush(st) == [st EXCEPT !.needsFlush = FALSE]

Flush(st) ==
  CASE Backend = "D3D" -> D3DFlush(st)
    [] Backend = "SW"  -> SWFlush(st)
    [] OTHER           -> OGLFlush(st)

\* Map(): returns at once if already mapped, else maps with the access the
\* staging type allows.  Only that mapping can fail (a failed HRESULT, a
\* null pointer from glMapBufferRange); the caller branches on it.
MapCanFail(st) == ~st.mapped

D3DMap(st) == [st EXCEPT !.mapped = TRUE]

OGLMap(st) == [st EXCEPT !.mapped = TRUE]

\* SWStagingTexture::Map just returns true: it is always mapped.
SWMap(st) == st

Map(st) ==
  CASE Backend = "D3D" -> D3DMap(st)
    [] Backend = "SW"  -> SWMap(st)
    [] OTHER           -> OGLMap(st)

\* Unmap(): D3D always releases the mapping; GL does so only without
\* persistent mappings; the software backend never does.
D3DUnmap(st) == [st EXCEPT !.mapped = FALSE]

OGLUnmap(st) ==
  IF UsePersistentStagingBuffers THEN st ELSE [st EXCEPT !.mapped = FALSE]

SWUnmap(st) == st

Unmap(st) ==
  CASE Backend = "D3D" -> D3DUnmap(st)
    [] Backend = "SW"  -> SWUnmap(st)
    [] OTHER           -> OGLUnmap(st)

\* The CPU may read the pointer: it is mapped and the last copy has been
\* waited for (the contract of Flush, spec section 4.1).
CPUReadable(st) == st.mapped /\ ~st.needsFlush

=============================================================================
