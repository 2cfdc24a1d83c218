---------------------------- MODULE Library ----------------------------
(***************************************************************************)
(* The function library: the loader that batches and caches calls, the     *)
(* token, codec, validator, parser, negotiation, schema and patch          *)
(* functions it can load, the wrappers through which a call reaches native *)
(* code, the two metrics registries and the pool of output buffers.  The   *)
(* parts share no state, so a behaviour exercises one of them; unit says   *)
(* which.  The pure functions share the variable call (module Calls) and   *)
(* are one unit.                                                           *)
(***************************************************************************)
EXTENDS Loader, Tokens, Validators, Negotiation, NativeCalls, Schema,
        JsonPatch, Metrics, Meters, BufferPool

VARIABLE unit

Units == {"loader", "tokens", "functions", "batches", "native", "metrics", "meters", "buffers"}

libraryVars == <<unit, loaderVars, tokenVars, call, packScratchFree, nativeVars,
                 metricsVars, metersVars, bufferVars>>

LibraryInit ==
    /\ unit \in Units
    /\ LoaderInit /\ (unit # "loader" => options.loadStrategy = "auto")
    /\ TokensInit
    /\ CallsInit
    /\ packScratchFree = <<>>
    /\ NativeCallsInit
    /\ MetricsInit
    /\ MetersInit
    /\ BufferInit

LoaderStep ==
    /\ unit = "loader" /\ LoaderNext
    /\ UNCHANGED <<unit, tokenVars, call, packScratchFree, nativeVars, metricsVars, metersVars, bufferVars>>

TokensStep ==
    /\ unit = "tokens" /\ TokensNext
    /\ UNCHANGED <<unit, loaderVars, call, packScratchFree, nativeVars, metricsVars, metersVars, bufferVars>>

FunctionsStep ==
    /\ unit = "functions"
    /\ \/ CodecsNext \/ ValidatorsNext \/ ParsersNext \/ NegotiationNext
       \/ SchemaNext \/ JsonPatchNext \/ Return
    /\ UNCHANGED <<unit, loaderVars, tokenVars, packScratchFree, nativeVars, metricsVars, metersVars, bufferVars>>

BatchesStep ==
    /\ unit = "batches"
    /\ BatchesNext \/ (Return /\ UNCHANGED packScratchFree)
    /\ UNCHANGED <<unit, loaderVars, tokenVars, nativeVars, metricsVars, metersVars, bufferVars>>

NativeStep ==
    /\ unit = "native"
    /\ NativeCallsNext \/ (Return /\ UNCHANGED nativeVars)
    /\ UNCHANGED <<unit, loaderVars, tokenVars, packScratchFree, metricsVars, metersVars, bufferVars>>

MetricsStep ==
    /\ unit = "metrics" /\ MetricsNext
    /\ UNCHANGED <<unit, loaderVars, tokenVars, call, packScratchFree, nativeVars, metersVars, bufferVars>>

MetersStep ==
    /\ unit = "meters" /\ MetersNext
    /\ UNCHANGED <<unit, loaderVars, tokenVars, call, packScratchFree, nativeVars, metricsVars, bufferVars>>

BuffersStep ==
    /\ unit = "buffers" /\ BufferNext
    /\ UNCHANGED <<unit, loaderVars, tokenVars, call, packScratchFree, nativeVars, metricsVars, metersVars>>

LibraryNext ==
    \/ LoaderStep \/ TokensStep \/ FunctionsStep \/ BatchesStep \/ NativeStep
    \/ MetricsStep \/ MetersStep \/ BuffersStep

LibrarySpec == LibraryInit /\ [][LibraryNext]_libraryVars
=============================================================================
