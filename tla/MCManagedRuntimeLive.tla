------------------------ MODULE MCManagedRuntimeLive ------------------------
(***************************************************************************)
(* Liveness of ManagedRuntime when failures eventually stop.               *)
(***************************************************************************)
EXTENDS MCManagedRuntime, Naturals

CONSTANT MaxInterrupts  \* crashes, exceptions and refusals a behaviour may have

ASSUME MaxInterrupts \in Nat

VARIABLE interrupts

LiveInit == Init /\ interrupts = 0

LiveNext ==
  \/ /\ \/ \E w \in Writer : Acquire(w) \/ Step(w)
        \/ ChangeManifest \/ Collect
     /\ UNCHANGED interrupts
  \/ /\ interrupts < MaxInterrupts
     /\ \E w \in Writer : Interrupt(w)
     /\ interrupts' = interrupts + 1

liveVars == <<vars, interrupts>>

\* A process runs on; someone invokes reconcile again; the known-good
\* generation does not stay unhealthy for ever.
Recovering ==
  /\ \A w \in Writer : WF_vars(Step(w)) /\ SF_vars(PreviousHealthy(w))
  /\ WF_vars(\E w \in Writer : Acquire(w))

\* A manifest that stays rejected, unbuildable or unhealthy cannot be reached.
Satisfiable ==
  \A w \in Writer :
    /\ SF_vars(AcceptManifest(w)) /\ SF_vars(Build(w))
    /\ SF_vars(Activate(w)) /\ SF_vars(CandidateHealthy(w))

LiveSpec == LiveInit /\ [][LiveNext]_liveVars /\ Recovering

\* An activation that a crash, a thrown error or an unhealthy candidate left
\* open is committed or rolled back.
Resolved == []<>(file = None \/ file.phase = "idle")

\* Once the host leaves the manifest alone and the collector does not take
\* every output before its root is set, consumers end up using that manifest.
Converges ==
  /\ Satisfiable
  /\ <>[][UNCHANGED manifest]_manifest
  /\ <>[][realized \subseteq realized']_realized
  => <>[](current # None /\ ManifestOf[current] = manifest)
=============================================================================
