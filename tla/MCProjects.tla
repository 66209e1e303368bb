----------------------------- MODULE MCProjects -----------------------------
(***************************************************************************)
(* Instances of Delivery and ProjectFiles for TLC.  Both have projects     *)
(* that are initialised and deleted, Delivery with their worktrees and     *)
(* branches, ProjectFiles with their configuration and logs; the two kinds *)
(* of files are never used together.  A behaviour is one of either, while  *)
(* the other module stays where it begins.                                 *)
(*                                                                         *)
(* Delivery has two stories of one project, and one of a second project    *)
(* that has the name of the first when that is gone.  The third story is   *)
(* planned anew with the number and the title of the first, and so gets    *)
(* its directory and branch.                                               *)
(***************************************************************************)
EXTENDS Delivery, ProjectFiles, TLC

VARIABLE part

ProjectsInit ==
    /\ Init /\ FilesInit
    /\ part \in {"git", "files"}
    /\ part = "git" => use = CHOOSE u \in Uses : TRUE
    /\ part = "git" => env = CHOOSE e \in Envs : TRUE

ProjectsNext ==
    \/ part = "git" /\ Next /\ UNCHANGED <<part, filesVars>>
    \/ part = "files" /\ FilesNext /\ UNCHANGED <<part, vars>>

ProjectsSpec == ProjectsInit /\ [][ProjectsNext]_<<part, vars, filesVars>>

OneName == [p \in Project |-> "name"]

ThirdInSecond == [s \in Story |-> IF s = 3 THEN 2 ELSE 1]

Numbers == [s \in Story |-> IF s = 2 THEN 2 ELSE 1]

OneTitle == [s \in Story |-> "title"]

\* 2^32, of which zero is left, less than zero, and a provider that there is
\* not.
Settings ==
    {<<"max_parallel", 4>>, <<"max_parallel", -1>>,
     <<"git_provider", "gitlab">>, <<"git_provider", "bitbucket">>}

\* NFLOW_MAX_PARALLEL is set or not.
Environments == {<<>>, [max_parallel |-> 2]}

Symmetry == Permutations(Client) \cup Permutations(Log)

Commands == {{"init", "delete", "set", "crash"}, {"set", "show"},
          {"init", "delete", "cleanup", "agents"}}

=============================================================================
