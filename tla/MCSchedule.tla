----------------------------- MODULE MCSchedule -----------------------------
(***************************************************************************)
(* Instances of Schedule for TLC, in units of 20 seconds: a period is a    *)
(* minute, and the schedule fires every 100 seconds, so that its firings   *)
(* fall anywhere in a period.                                              *)
(***************************************************************************)
EXTENDS Schedule

EC2 == [aka |-> "ec2", ns |-> "AWS/EC2"]
SQS == [aka |-> "sqs", ns |-> "AWS/SQS"]

TwoServices == {EC2, SQS}

Job(type, static, regions, metrics) ==
  [type |-> type, wellFormed |-> TRUE, static |-> static, regions |-> regions,
   roles |-> <<>>, metrics |-> metrics]

(* Two lengths of one job share a batch; a static job has them too.        *)
OneJob == <<Job("ec2", FALSE, <<>>, <<[length |-> 9, delay |-> 1], [delay |-> 1]>>),
            Job("AWS/SQS", TRUE, <<"">>, <<[length |-> 9]>>)>>

(* A region that is named twice, a second region and a second job.         *)
TwoJobs == <<Job("sqs", FALSE, <<"west", "west", "east">>, <<[delay |-> 1]>>),
             Job("ec2", FALSE, <<"west">>, <<[length |-> 9, delay |-> 1]>>)>>

(* Requests that no other lengthens, one of them with a delay.             *)
Alone == <<Job("sqs", FALSE, <<"east">>, <<[delay |-> 1]>>),
           Job("ec2", TRUE, <<"east">>, <<[delay |-> 2]>>)>>

Unknown == <<Job("sqs", FALSE, <<>>, <<>>), Job("s3", TRUE, <<>>, <<>>)>>

Malformed == <<[Job("sqs", FALSE, <<>>, <<>>) EXCEPT !.wellFormed = FALSE]>>

AllConfigs == {OneJob, TwoJobs, Alone, Unknown, Malformed}
=============================================================================
