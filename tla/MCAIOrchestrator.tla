-------------------------- MODULE MCAIOrchestrator --------------------------
(* The chain of ai_orchestrator.py:48-49. *)
EXTENDS AIOrchestrator

MCChain == <<"groq", "openai", "ollama">>
=============================================================================
