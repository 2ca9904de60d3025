------------------------------ MODULE MCDeployment ------------------------------
EXTENDS Deployment

\* Release 2 extends the migrations of release 1; release 3 is from another branch.
MCMigrations == <<  <<1>>, <<1, 2>>, <<1, 9, 3>> >>
================================================================================
