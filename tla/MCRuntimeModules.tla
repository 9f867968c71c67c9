-------------------------- MODULE MCRuntimeModules --------------------------
(* A small instance of RuntimeModules for TLC: four cases, one of which is  *)
(* not sampled, two at a time, and a limit of two bytes.                    *)
EXTENDS RuntimeModules

FourCases == <<"a", "b", "c", "d">>
ThreeSampled == {"a", "c", "d"}
AllFrameworks ==
  {"nextjs", "nestjs", "express", "fastify", "fastapi", "django", "flask", "chi", "gin", "fiber", "axum", "actix"}
AllLanguages == {"typescript", "javascript", "python", "go", "rust"}
=============================================================================
