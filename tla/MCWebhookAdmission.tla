------------------------- MODULE MCWebhookAdmission -------------------------
(* WebhookAdmission for TLC: the constants of the cfg files are numbers.    *)
EXTENDS WebhookAdmission
=============================================================================
