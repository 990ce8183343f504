----------------------------- MODULE Prediction -----------------------------
(***************************************************************************)
(* The correlation model of pkg/prediction: it maps a given open port to   *)
(* the probabilities, in percent, of the ports it makes likely.  A score   *)
(* is a fraction of Unit, fine enough for the reciprocals of popularity    *)
(* ranks that PortQueue compares it with.                                  *)
(***************************************************************************)
EXTENDS Integers, Sequences, FiniteSets, SequencesExt, FiniteSetsExt, TLC

Unit == 1000000000
Percent(n) == n * 10000000

\* DefaultModel(): web, SSH, mail, Windows, databases and common stacks.
DefaultModel ==
     80 :> (443:>90 @@ 8080:>25 @@ 8443:>20 @@ 8000:>15 @@ 8888:>12
            @@ 3000:>10 @@ 22:>40)
  @@ 443 :> (80:>85 @@ 8443:>22 @@ 8080:>20 @@ 22:>45)
  @@ 22 :> (80:>70 @@ 443:>65 @@ 21:>20 @@ 3306:>18 @@ 5432:>12 @@ 8080:>15)
  @@ 25 :> (110:>60 @@ 143:>65 @@ 465:>55 @@ 587:>60 @@ 993:>50 @@ 995:>45
            @@ 80:>35)
  @@ 110 :> (25:>55 @@ 995:>80 @@ 587:>50)
  @@ 143 :> (25:>60 @@ 993:>85 @@ 587:>55)
  @@ 993 :> (143:>80) @@ 995 :> (110:>75) @@ 465 :> (587:>70)
  @@ 587 :> (465:>65)
  @@ 135 :> (445:>85 @@ 3389:>45 @@ 5985:>25)
  @@ 445 :> (135:>85 @@ 139:>75 @@ 3389:>50 @@ 5985:>30 @@ 5986:>20)
  @@ 139 :> (445:>70) @@ 3389 :> (445:>70 @@ 135:>65 @@ 139:>50)
  @@ 3306 :> (22:>60 @@ 80:>45 @@ 443:>40 @@ 33060:>25)
  @@ 5432 :> (22:>55 @@ 80:>40 @@ 443:>35)
  @@ 27017 :> (22:>45 @@ 80:>35 @@ 27018:>30 @@ 27019:>25)
  @@ 6379 :> (22:>50 @@ 80:>35 @@ 443:>30)
  @@ 23 :> (80:>75 @@ 443:>55 @@ 8080:>40 @@ 8443:>25 @@ 8082:>20)
  @@ 8080 :> (80:>60 @@ 443:>50 @@ 22:>30 @@ 8443:>25)
  @@ 8443 :> (443:>55 @@ 80:>50 @@ 8080:>30)
  @@ 8000 :> (80:>50 @@ 443:>40) @@ 8888 :> (80:>45 @@ 443:>35)
  @@ 21 :> (22:>55 @@ 80:>45 @@ 443:>35) @@ 53 :> (22:>40 @@ 80:>35 @@ 443:>30)
  @@ 2375 :> (22:>50 @@ 80:>40 @@ 443:>35 @@ 2376:>30)
  @@ 2376 :> (22:>50 @@ 80:>40 @@ 2375:>30)
  @@ 9090 :> (3000:>30 @@ 80:>35 @@ 443:>30 @@ 22:>35)
  @@ 3000 :> (80:>40 @@ 443:>35 @@ 9090:>25)
  @@ 2222 :> (80:>45 @@ 443:>40 @@ 22:>30)
  @@ 9200 :> (9300:>60 @@ 5601:>35) @@ 9300 :> (9200:>65)
  @@ 5601 :> (9200:>50)
  @@ 6443 :> (10250:>40 @@ 2379:>35) @@ 10250 :> (6443:>55)
  @@ 8161 :> (61616:>55) @@ 61616 :> (8161:>60)
  @@ 15672 :> (5672:>70) @@ 5672 :> (15672:>55)

\* The entries of a given port, none when the model does not know it.
GetCorrelations(model, given) ==
  IF given \in DOMAIN model THEN model[given] ELSE <<>>

\* P(target | given), 0 when the model has no such entry.
Probability(model, given, target) ==
  LET corr == GetCorrelations(model, given)
  IN  IF target \in DOMAIN corr THEN Percent(corr[target]) ELSE 0

\* Prioritize: the highest probability over the open ports, 0 without data.
Score(model, open, candidate) ==
  Max({0} \union {Probability(model, g, candidate) : g \in open})
=============================================================================
