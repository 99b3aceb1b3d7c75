--------------------------------- MODULE Git ---------------------------------
(* Git.py: a repository is cloned, or what an earlier section or an earlier   *)
(* mtt left in the scratch directory is used.  The directory is named after   *)
(* the section, and done (self.done) remembers what it was left with.         *)
EXTENDS Plugin

CONSTANTS
    Branch, Pull,       \* branches and pull requests of the remote repository
    Main,               \* its default branch
    Within,             \* <<b, h>>: the name b is part of the line that git
                        \*   branch prints for the head h
    Moving,             \* bound: the refs that get new commits
    MaxTip              \* bound: how many each of them gets

VARIABLES
    tip,        \* the remote repository: newest commit of each ref
    tree,       \* what is at the repository's path, for each section
    done,       \* Git's memo
    tries       \* try_count

gitVars == <<tip, tree, done, tries>>

Heads == Branch \cup Pull \cup {"detached", ""}
Wants ==
    {w \in [kind : {"default", "branch", "commit", "pr", "several"},
             ref : Branch \cup Pull \cup {""}, n : 0 .. MaxTip] :
        /\ w.kind \in {"branch", "commit"} => w.ref \in Branch
        /\ w.kind = "pr" => w.ref \in Pull}
Default == [kind |-> "default", ref |-> "", n |-> 0]

ASSUME GitAssumption ==
    /\ MaxTip \in Nat /\ Main \in Branch /\ Moving \subseteq Branch \cup Pull
    /\ Branch \cap Pull = {} /\ {"detached", ""} \cap (Branch \cup Pull) = {}
    /\ \A b \in Branch : <<b, b>> \in Within
    /\ \A r \in Requests :
          /\ r.want \in Wants /\ r.retry \in Nat
          /\ r.subdir \in BOOLEAN /\ r.asis \in BOOLEAN

\* A partial clone has no commit that git can name; files is FALSE in a clone
\* made with --no-checkout, and in one that lacks files it should have.
Nothing == [is |-> "none", head |-> "", ref |-> "", at |-> 0, files |-> FALSE]
Partial == [Nothing EXCEPT !.is = "partial"]
Clone(head, ref, at, files) ==
    [is |-> "clone", head |-> head, ref |-> ref, at |-> at, files |-> files]

Tree == [is : {"none", "file", "partial", "clone"}, head : Heads,
         ref : Branch \cup Pull \cup {""}, at : 0 .. MaxTip, files : BOOLEAN]

NoMemo == [known |-> FALSE, status |-> 0, want |-> Default]
Memo == [known : BOOLEAN, status : {0, 1}, want : Wants]

GitInit ==
    /\ tip = [r \in Branch \cup Pull |-> 0]
    /\ \E x \in {"none", "file"} : tree = [s \in Section |-> [Nothing EXCEPT !.is = x]]
    /\ done = [s \in Section |-> NoMemo]
    /\ tries = 0

GitTypeOK ==
    /\ tip \in [Branch \cup Pull -> 0 .. MaxTip]
    /\ tree \in [Section -> Tree]
    /\ done \in [Section -> Memo]
    /\ \E r \in Requests : tries \in 0 .. r.retry + 1

S == cur.section
Here == tree[S]
Want == cur.want
At(place) == pc = place /\ cur.plugin = "Git"

\* The memo of this section's repository.
Remember(st) == done' = [done EXCEPT ![S] = [known |-> TRUE, status |-> st, want |-> Want]]
Becomes(t) == tree' = [tree EXCEPT ![S] = t]

\* log['status'], os.chdir(cwd), continue
NextTry ==
    /\ log' = [log EXCEPT !.status = 1]
    /\ Chdir(entry.cwd)
    /\ Go("try")
    /\ UNCHANGED <<tip, tries>>
-----------------------------------------------------------------------------
\* Options.  Without a url the variable is unbound, which raises: the handler
\* for it is that of a KeyError.  A password needs a user, pwfile must exist.
GitStart ==
    /\ At("start")
    /\ \/ cur.options = "missing" /\ Raise
       \/ cur.options = "refused" /\ Fail /\ UNCHANGED env
       \/ cur.options = "good" /\ Apply(cur.mods, "lookup", "returned")
    /\ UNCHANGED gitVars

\* The early returns: git is not there, or more than one thing is wanted.
GitRefuse ==
    /\ At("lookup")
    /\ Fail
    /\ UNCHANGED <<env, gitVars>>

\* The same thing is wanted, or nothing in particular.
SameWant == Want.kind = "default" \/ Want = done[S].want

\* Mutant: a failure that is remembered is tried again.
GitRecallRetries ==
    /\ At("lookup") /\ Want.kind # "several" /\ done[S].known
    /\ IF done[S].status # 0 THEN Go("prepare") /\ UNCHANGED log
       ELSE /\ log' = [status |-> 0, located |-> TRUE, memo |-> SameWant]
            /\ IF SameWant THEN Return ELSE Go("prepare")
    /\ UNCHANGED <<env, gitVars>>

\* What is remembered: a failure for good; a success if it is what is wanted,
\* and then the subdirectory has to be there.  If it is not what is wanted the
\* log already has the status and the location of the other.
GitRecall ==
    /\ At("lookup") /\ Want.kind # "several" /\ done[S].known
    /\ \/ /\ done[S].status # 0
          /\ Fail
       \/ /\ done[S].status = 0
          /\ \/ /\ cur.subdir
                /\ log' = [status |-> 1, located |-> TRUE, memo |-> TRUE]
                /\ Return
             \/ /\ log' = [status |-> 0, located |-> TRUE, memo |-> SameWant]
                /\ IF SameWant THEN Return ELSE Go("prepare")
    /\ UNCHANGED <<env, gitVars>>

GitForget ==
    /\ At("lookup") /\ Want.kind # "several" /\ ~done[S].known
    /\ Go("prepare")
    /\ UNCHANGED <<env, log, gitVars>>

\* The scratch directory cannot be made, or the retry count is negative.
GitPrepare ==
    /\ At("prepare")
    /\ \/ Fail /\ UNCHANGED tries
       \/ tries' = 0 /\ Go("try") /\ UNCHANGED log
    /\ UNCHANGED <<env, tip, tree, done>>

\* while try_count <= retry
GitGiveUp ==
    /\ At("try") /\ tries > cur.retry
    /\ Return
    /\ UNCHANGED <<env, log, gitVars>>

\* One attempt: into the scratch directory, and look at what is there.
GitTry ==
    /\ At("try") /\ tries <= cur.retry
    /\ tries' = tries + 1
    /\ UNCHANGED <<tip, tree>>
    /\ CASE Here.is = "file" ->
              /\ Remember(1)
              /\ log' = [log EXCEPT !.status = 1]
              /\ Chdir(entry.cwd) /\ Go("try")
         [] Here.is = "none" ->
              /\ Chdir(Scratch(S)) /\ Go("clone") /\ UNCHANGED <<log, done>>
         [] OTHER ->
              /\ IF Want.kind = "pr"
                 THEN Chdir(Scratch(S)) /\ Go("wipe")
                 ELSE Chdir(Package(S)) /\ Go("inspect")
              /\ UNCHANGED <<log, done>>

\* Does the clone already have what is wanted?  git branch names the head, and
\* a part of its name will do; git log tells the commits.
Suits ==
    CASE Want.kind = "branch" -> <<Want.ref, Here.head>> \in Within
      [] Want.kind = "commit" -> Here.ref = Want.ref /\ Here.at = Want.n
      [] OTHER -> TRUE

\* Mutant: the clone that is not on the branch is kept.
GitInspectKeeps ==
    /\ At("inspect")
    /\ UNCHANGED <<done, tree>>
    /\ \/ Want.kind # "default" /\ NextTry
       \/ Go(IF cur.asis THEN "record" ELSE "pull") /\ UNCHANGED <<env, log, tip, tries>>

\* git branch, or git log: a partial clone has no branch, and no log.  With
\* merge_stdout_stderr the log is not read, and no commit is ever the one.
GitInspect ==
    /\ At("inspect")
    /\ UNCHANGED done
    /\ \/ /\ Want.kind # "default"
          /\ NextTry
       \/ /\ Here.is = "clone" \/ Want.kind = "default"
          /\ Suits
          /\ Go(IF cur.asis THEN "record" ELSE "pull")
          /\ UNCHANGED <<env, log, tip, tries>>
       \/ /\ \/ Here.is = "clone" /\ ~Suits
             \/ Here.is = "clone" /\ Want.kind = "commit"
             \/ Here.is = "partial" /\ Want.kind = "branch"
          /\ Chdir(Scratch(S)) /\ Go("wipe")
          /\ UNCHANGED <<log, tip, tries>>
    /\ UNCHANGED tree

\* What git clone makes.
Cloned ==
    CASE Want.kind = "branch" -> Clone(Want.ref, Want.ref, tip[Want.ref], TRUE)
      [] Want.kind = "commit" -> Clone(Main, Main, tip[Main], FALSE)
      [] OTHER -> Clone(Main, Main, tip[Main], TRUE)

\* What a step leaves that fails or is cut short.  git clone removes what it
\* made, unless it is killed or only the checkout at its end has failed; a
\* checkout, and the one in a pull, may have replaced some of the files; rmtree
\* may have removed some, .git among them or not.
Torn ==
    CASE At("clone") \/ At("reclone") -> {Here, Partial, [Cloned EXCEPT !.files = FALSE]}
      [] At("wipe") -> {Here, Partial, [Here EXCEPT !.files = FALSE]}
      [] At("checkout") \/ At("recheckout") \/ (At("pull") /\ Here.head \in Branch)
            -> {Here, [Here EXCEPT !.files = FALSE]}
      [] OTHER -> {Here}

\* git pull of a branch; it has nothing to pull into a detached head, nor into
\* the local branch of a pull request.
GitPull ==
    /\ At("pull")
    /\ UNCHANGED done
    /\ \/ NextTry /\ \E t \in Torn : Becomes(t)
       \/ /\ Here.head \in Branch
          /\ Becomes([Here EXCEPT !.at = tip[Here.head]])
          /\ Go("record")
          /\ UNCHANGED <<env, log, tip, tries>>

\* shutil.rmtree(repo)
GitWipe ==
    /\ At("wipe")
    /\ Becomes(Nothing)
    /\ Go("reclone")
    /\ UNCHANGED <<env, log, tip, done, tries>>

\* Mutant: no failure is remembered.
GitCloneForgets ==
    /\ pc \in {"clone", "reclone"} /\ At(pc)
    /\ \/ (\E t \in Torn : Becomes(t)) /\ UNCHANGED done /\ NextTry
       \/ /\ Becomes(Cloned)
          /\ Chdir(Package(S))
          /\ Go(IF Want.kind \in {"commit", "pr"} THEN "recheckout" ELSE "record")
          /\ UNCHANGED <<log, tip, done, tries>>

\* git clone, after a rmtree ("reclone") or into an empty place ("clone").
\* Failures are remembered, but for the first clone of a branch or a default.
GitClone ==
    /\ pc \in {"clone", "reclone"} /\ At(pc)
    /\ \/ /\ \E t \in Torn : Becomes(t)
          /\ IF pc = "reclone" \/ Want.kind \in {"commit", "pr"}
             THEN Remember(1) ELSE UNCHANGED done
          /\ NextTry
       \/ /\ Becomes(Cloned)
          /\ Chdir(Package(S))
          /\ Go(IF Want.kind \in {"commit", "pr"}
                THEN IF pc = "clone" THEN "checkout" ELSE "recheckout"
                ELSE "record")
          /\ UNCHANGED <<log, tip, done, tries>>

\* git fetch (of a pull request) and git checkout.  A failed checkout is
\* remembered after a rmtree, a failed fetch always.
GitCheckout ==
    /\ pc \in {"checkout", "recheckout"} /\ At(pc)
    /\ \/ /\ \/ pc = "recheckout" /\ Remember(1)
             \/ Want.kind = "pr" /\ Remember(1)
             \/ pc = "checkout" /\ UNCHANGED done
          /\ NextTry
          /\ \E t \in Torn : Becomes(t)
       \/ /\ Want.n <= tip[Want.ref]
          /\ Becomes(IF Want.kind = "pr"
                     THEN Clone(Want.ref, Want.ref, tip[Want.ref], TRUE)
                     ELSE Clone("detached", Want.ref, Want.n, TRUE))
          /\ Go("record")
          /\ UNCHANGED <<env, log, tip, done, tries>>

\* The result is logged, the subdirectory has to be there, the result is
\* remembered, the modules are reverted.  If one of the last fails the next
\* attempt goes on without the modules.
GitRecord ==
    /\ At("record")
    /\ UNCHANGED <<tip, tree, tries>>
    /\ \E o \in RevertModules(S, env.modules) :
          /\ env' = [modules |-> o[1], cwd |-> entry.cwd]
          /\ \/ /\ cur.subdir
                /\ log' = [log EXCEPT !.status = 1, !.located = TRUE]
                /\ Go("try")
                /\ UNCHANGED done
             \/ /\ Remember(0)
                /\ log' = [log EXCEPT !.status = o[2], !.located = TRUE]
                /\ Go(IF o[2] = 0 THEN "returned" ELSE "try")

\* A commit is pushed to a branch or a pull request.  (A call reads a ref
\* once, so that it is enough between calls.)
GitPush ==
    /\ AtRest
    /\ \E r \in Moving :
          tip[r] < MaxTip /\ tip' = [tip EXCEPT ![r] = @ + 1]
    /\ UNCHANGED <<shared, tree, done, tries>>

GitNext ==
    \/ GitStart \/ GitRefuse \/ GitRecall \/ GitForget \/ GitPrepare
    \/ GitGiveUp \/ GitTry \/ GitInspect \/ GitPull \/ GitWipe \/ GitClone
    \/ GitCheckout \/ GitRecord
=============================================================================
